---- MODULE Spec2Model ----
(***************************************************************************)
(* State-machine model of the boxing career core (boxing_game.modules):    *)
(* the CareerState aggregate and the operations that mutate it.  One       *)
(* action per engine function; the random stream of an operation is a      *)
(* nondeterministic choice over the values the stream can deliver.         *)
(*                                                                         *)
(* The rule tables (rules/*.json, read through load_rule_set) are not part *)
(* of the sources; the Rules* definitions below instantiate them with a    *)
(* small table of the shape the code reads.                                *)
(***************************************************************************)
EXTENDS Integers, Sequences, FiniteSets, TLC

VARIABLES
    state,      \* the CareerState aggregate
    last,       \* the operation that produced it and its outcome
    budget      \* the calls still to be explored, by kind

vars == <<state, last, budget>>

(***************************************************************************)
(* Program constants.                                                      *)
(***************************************************************************)
STARTING_AGE == 15
MIN_STAT == 20
MAX_STAT == 95
MAX_FATIGUE == 12
MAX_INJURY_RISK == 100

(* None for a rank (int | None) and for a name (str | None); a key that is *)
(* missing from a dict.                                                    *)
NoRank == 0
AbsentRank == -1
NoName == "None"
AbsentName == "absent"
AbsentLevel == -1

BoxerName == "Player"
DrawName == "Draw"

(***************************************************************************)
(* Bounds of the exploration.                                              *)
(***************************************************************************)
MaxAmateurFights == 2
MaxProFights == 1
MaxCareerMonths == 24
MaxDefenses == 1
MaxRetiredCalls == 1
MaxExtras == 1
MaxCalls == 6
MaxTitleCalls == 2

(***************************************************************************)
(* utils.py                                                                *)
(***************************************************************************)
Max(a, b) == IF a >= b THEN a ELSE b
Min(a, b) == IF a <= b THEN a ELSE b
Abs(a) == IF a >= 0 THEN a ELSE -a

clamp_int(value, minimum, maximum) == Max(minimum, Min(maximum, value))

_clamp_stat(value) == Max(20, Min(95, value))

(* Python round() (round half to even) on the rational num / den, den > 0 *)
PyRound(num, den) ==
    LET q == num \div den
        r == num % den
    IN  IF 2 * r < den THEN q
        ELSE IF 2 * r > den THEN q + 1
        ELSE IF q % 2 = 0 THEN q ELSE q + 1

(***************************************************************************)
(* Rule tables.                                                            *)
(***************************************************************************)
StatNames == {"power", "speed", "chin", "stamina", "defense", "ring_iq",
              "footwork", "reach_control", "inside_fighting"}

(* weight_classes.json: lightest to heaviest *)
RulesWeightClasses ==
    << [name |-> "super_lightweight", min_lbs |-> 136, max_lbs |-> 140, avg_height_in |-> 69],
       [name |-> "welterweight", min_lbs |-> 141, max_lbs |-> 147, avg_height_in |-> 70],
       [name |-> "super_welterweight", min_lbs |-> 148, max_lbs |-> 154, avg_height_in |-> 71] >>

(* attribute_model.json *)
RulesAttributeModel ==
    [ base_stats |-> [s \in StatNames |-> 50],
      height_coefficients |-> [s \in StatNames |->
            IF s = "reach_control" THEN 2 ELSE IF s = "inside_fighting" THEN -1 ELSE 0],
      weight_coefficients |-> [s \in StatNames |->
            IF s = "power" THEN 3 ELSE IF s = "speed" THEN -2 ELSE 0],
      stat_limits |-> [min |-> 20, max |-> 95],
      training_focuses |-> {"power", "speed", "ring_iq"} ]

(* amateur_progression.json *)
RulesAmateurProgression ==
    [ tiers |-> << [name |-> "novice", min_fights |-> 0, max_fights |-> 1, rounds |-> 3,
                    opponent_rating_min |-> 58, opponent_rating_max |-> 58,
                    points |-> [win |-> 10, draw |-> 4, loss |-> 1, ko_bonus |-> 2]],
                   [name |-> "regional", min_fights |-> 2, max_fights |-> 5, rounds |-> 3,
                    opponent_rating_min |-> 66, opponent_rating_max |-> 66,
                    points |-> [win |-> 12, draw |-> 5, loss |-> 2, ko_bonus |-> 3]] >>,
      pro_readiness |-> [min_age |-> 16, min_fights |-> 2, min_points |-> 12] ]

(* experience_model.json; rating_bonus_scale is the rational num/den *)
RulesExperienceModel ==
    [ base_points_per_fight |-> [amateur |-> 4, pro |-> 6],
      result_points |-> [win |-> 3, draw |-> 2, loss |-> 1],
      rating_bonus_scale |-> [num |-> 1, den |-> 10],
      ko_bonus |-> 2,
      max_gain_per_fight |-> 12 ]

(* fight_model.json, post_fight_effects per stage; multipliers in percent *)
RulesFightModel ==
    [ amateur |-> [ base_fatigue_gain |-> 3, base_injury_risk_gain |-> 4,
                    rounds_completed_weight |-> 35,
                    outcome_multipliers |->
                        [win |-> [fatigue |-> 90, injury |-> 80],
                         draw |-> [fatigue |-> 100, injury |-> 100],
                         loss |-> [fatigue |-> 120, injury |-> 130]],
                    stoppage_multipliers |->
                        [win |-> [fatigue |-> 80, injury |-> 80],
                         draw |-> [fatigue |-> 100, injury |-> 100],
                         loss |-> [fatigue |-> 130, injury |-> 160]] ],
      pro |->     [ base_fatigue_gain |-> 4, base_injury_risk_gain |-> 5,
                    rounds_completed_weight |-> 35,
                    outcome_multipliers |->
                        [win |-> [fatigue |-> 90, injury |-> 80],
                         draw |-> [fatigue |-> 100, injury |-> 100],
                         loss |-> [fatigue |-> 120, injury |-> 130]],
                    stoppage_multipliers |->
                        [win |-> [fatigue |-> 80, injury |-> 80],
                         draw |-> [fatigue |-> 100, injury |-> 100],
                         loss |-> [fatigue |-> 130, injury |-> 160]] ] ]

(* pro_career.json; money in cents, shares and probabilities in percent *)
RulesOrganizations ==
    << [name |-> "WBC", ranking_slots |-> 6,
        sanction_fee_rank_threshold |-> 3, sanction_fee_pct |-> 2],
       [name |-> "WBA", ranking_slots |-> 5,
        sanction_fee_rank_threshold |-> 3, sanction_fee_pct |-> 2] >>

RulesProTiers ==
    << [name |-> "prospect", min_fights |-> 0, max_fights |-> 1, rounds |-> 4,
        opponent_rating_min |-> 60, opponent_rating_max |-> 60,
        purse |-> [min |-> 200000, max |-> 200000],
        popularity |-> [win |-> 3, draw |-> 1, loss |-> -2],
        ranking |-> [entry_on_win |-> 5, win_step |-> 2, draw_penalty |-> 1, loss_penalty |-> 2]],
       [name |-> "contender", min_fights |-> 2, max_fights |-> 9, rounds |-> 8,
        opponent_rating_min |-> 70, opponent_rating_max |-> 70,
        purse |-> [min |-> 600000, max |-> 600000],
        popularity |-> [win |-> 4, draw |-> 1, loss |-> -3],
        ranking |-> [entry_on_win |-> 4, win_step |-> 3, draw_penalty |-> 2, loss_penalty |-> 3]] >>

RulesTurnPro == [signing_bonus_min |-> 300000, signing_bonus_max |-> 300000]

RulesPromoters == {"Top Tier Promotions"}

RulesEconomy ==
    [ popularity_bonus_per_point |-> 1000, opponent_rating_bonus |-> 1000,
      ranking_bonus_per_step |-> 10000,
      manager_cut_pct |-> 10, trainer_cut_pct |-> 10, camp_cost_pct |-> 5,
      commission_pct |-> 5 ]

RulesSanctioningPolicy ==
    [ include_focus_org_always |-> TRUE,
      cross_body_top_window_prob |-> 78, cross_body_elite_prob |-> 56,
      cross_body_rank_gap_prob |-> 35, cross_body_single_top10_prob |-> 30,
      cross_body_rank_window |-> 20, cross_body_elite_cutoff |-> 15,
      cross_body_rank_gap_max |-> 8,
      opponent_unranked_pool_rank_chance |-> 0,
      opponent_cross_rank_jitter |-> 5 ]

RulesWorldSimulation ==
    [ simulate_all_divisions |-> FALSE,
      title_defense_news_probability |-> 100,
      max_news_items_per_month |-> 20,
      rank_drift_up_step_min |-> 1, rank_drift_up_step_max |-> 1 ]

(* pro_spending.json; money in cents *)
StaffKeys == {"elite_coach", "nutritionist", "sports_science"}

RulesProSpending ==
    [ special_camp |-> [cost |-> 300000, training_cycles |-> 2, coach_bonus_multiplier |-> 1,
                        fatigue_gain |-> 3, injury_risk_gain |-> 5, months |-> 1],
      medical_recovery |-> [cost |-> 200000, fatigue_reduction |-> 6,
                            injury_risk_reduction |-> 14, months |-> 1],
      staff_upgrades |->
        [k \in StaffKeys |->
            [ max_level |-> 2, cost_by_level |-> <<200000, 400000>>,
              training_focus_bonus_per_level |-> IF k = "elite_coach" THEN 1 ELSE 0,
              fatigue_gain_reduction_per_level |-> IF k = "nutritionist" THEN 1 ELSE 0,
              injury_risk_gain_reduction_per_level |-> IF k = "nutritionist" THEN 1 ELSE 0,
              age_decline_reduction_per_level |-> IF k = "sports_science" THEN 8 ELSE 0,
              ring_iq_growth_bonus_per_level |-> IF k = "sports_science" THEN 6 ELSE 0,
              rest_recovery_bonus_per_level |-> IF k = "nutritionist" THEN 1 ELSE 0,
              injury_risk_rest_bonus_per_level |-> IF k = "nutritionist" THEN 1 ELSE 0 ]] ]

(* retirement_model.json; chances in permille *)
RulesRetirementModel ==
    [ hard_age_cap |-> 17,
      age_bands |-> << [min_age |-> 16, max_age |-> 16, base_chance |-> 200] >>,
      chance_bounds |-> [min |-> 0, max |-> 900],
      performance |->
        [ sample_fights_min |-> 2,
          win_rate_low |-> 300, win_rate_mid |-> 500,
          win_rate_high |-> 700, win_rate_elite |-> 900,
          mod_low |-> 100, mod_mid |-> 50, mod_high |-> -50, mod_elite |-> -100,
          recent_window |-> 2, recent_loss_streak_step |-> 50, recent_no_win_bonus |-> 50,
          injury_threshold |-> 20, injury_per_point |-> 5,
          fatigue_threshold |-> 8, fatigue_per_point |-> 10,
          champion_protection |-> 100,
          top_rank_cutoff |-> 3, top_rank_protection_per_step |-> 20,
          early_career_fights |-> 1, early_career_protection |-> 100 ] ]

(* aging_model.json *)
RulesAgingModel ==
    [ stat_limits |-> [min |-> 20, max |-> 95],
      decline_acceleration_per_year |-> 4,
      age_brackets |-> << [min_age |-> 16, max_age |-> 99,
                           stat_deltas |-> [s \in StatNames |->
                               IF s = "speed" THEN -1 ELSE IF s = "ring_iq" THEN 1 ELSE 0]] >> ]

(***************************************************************************)
(* weight_class_engine.py                                                  *)
(***************************************************************************)
list_weight_classes == RulesWeightClasses

classify_weight(weight_lbs) ==
    LET classes == list_weight_classes
        hits == {i \in 1..Len(classes) :
                    classes[i].min_lbs <= weight_lbs /\ weight_lbs <= classes[i].max_lbs}
    IN  IF hits # {} THEN classes[CHOOSE i \in hits : \A j \in hits : i <= j]
        ELSE IF weight_lbs < classes[1].min_lbs THEN classes[1]
        ELSE classes[Len(classes)]

(***************************************************************************)
(* attribute_engine.py                                                     *)
(***************************************************************************)
build_stats(height_inches, weight_lbs, weight_class) ==
    LET rules == RulesAttributeModel
        frame_delta == height_inches - weight_class.avg_height_in
        class_span == Max(1, weight_class.max_lbs - weight_class.min_lbs)
        (* heaviness = (weight_position - 0.5) * 2 = heavy_num / class_span *)
        heavy_num == 2 * (weight_lbs - weight_class.min_lbs) - class_span
    IN  [s \in StatNames |->
            clamp_int(PyRound(rules.base_stats[s] * class_span
                              + frame_delta * rules.height_coefficients[s] * class_span
                              + heavy_num * rules.weight_coefficients[s],
                              class_span),
                      rules.stat_limits.min, rules.stat_limits.max)]

KnownFocus(focus) == focus \in StatNames

(* a month of training without the limits *)
training_gain_unlimited(stats, focus) ==
    LET f1 == [stats EXCEPT ![focus] = @ + 2]
        f2 == IF focus \in {"power", "chin"}
              THEN [f1 EXCEPT !["speed"] = @ - 1] ELSE f1
        f3 == IF focus \in {"speed", "footwork"}
              THEN [f2 EXCEPT !["power"] = @ - 1] ELSE f2
    IN  f3

training_gain(stats, focus) ==
    LET max_stat == RulesAttributeModel.stat_limits.max
        f1 == [stats EXCEPT ![focus] = Min(max_stat, @ + 2)]
        f2 == IF focus \in {"power", "chin"}
              THEN [f1 EXCEPT !["speed"] = Max(MIN_STAT, @ - 1)] ELSE f1
        f3 == IF focus \in {"speed", "footwork"}
              THEN [f2 EXCEPT !["power"] = Max(MIN_STAT, @ - 1)] ELSE f2
    IN  f3

(***************************************************************************)
(* models.py, player_profile.py: the aggregate after construction          *)
(***************************************************************************)
OrgIndex == 1..Len(RulesOrganizations)
_organization_names == [i \in OrgIndex |-> RulesOrganizations[i].name]
OrgNames == {_organization_names[i] : i \in OrgIndex}

DivIndex == 1..Len(RulesWeightClasses)
_weight_class_names == [i \in DivIndex |-> RulesWeightClasses[i].name]
DivisionNames == {_weight_class_names[i] : i \in DivIndex}

CareerRecord == [wins |-> 0, losses |-> 0, draws |-> 0, kos |-> 0]

(* aging_engine.generate_aging_profile: one profile of its range;          *)
(* severity and growth factor in percent                                   *)
AgingProfile ==
    [peak_age |-> 26, decline_onset_age |-> 27, decline_severity |-> 100,
     iq_growth_factor |-> 100]

PlayerHeightInches == 70
PlayerWeightLbs == 147

create_boxer ==
    LET weight_class == classify_weight(PlayerWeightLbs)
    IN  [ age |-> STARTING_AGE,
          weight_lbs |-> PlayerWeightLbs,
          stats |-> build_stats(PlayerHeightInches, PlayerWeightLbs, weight_class),
          division |-> weight_class.name,
          record |-> CareerRecord,
          amateur_points |-> 0,
          popularity |-> 10,
          fatigue |-> 0,
          experience_points |-> 0,
          injury_risk |-> 0,
          aging_profile |-> AgingProfile ]

AmateurProgress == [fights_taken |-> 0, tier |-> "novice"]

ProCareer ==
    [ is_active |-> FALSE,
      promoter |-> "",
      organization_focus |-> "WBC",
      rankings |-> [o \in OrgNames |-> AbsentRank],
      organization_champions |-> [o \in OrgNames |-> [d \in DivisionNames |-> AbsentName]],
      organization_defenses |-> [o \in OrgNames |-> [d \in DivisionNames |-> AbsentRank]],
      record |-> CareerRecord,
      purse_balance |-> 0,
      total_earnings |-> 0,
      staff_levels |-> [k \in StaffKeys |-> AbsentLevel],
      lineal_champions |-> [d \in DivisionNames |-> AbsentName],
      lineal_defenses |-> [d \in DivisionNames |-> AbsentRank],
      division_changes |-> 0,
      divisions_fought |-> << >>,
      last_world_news |-> << >>,
      last_player_fight_month |-> 0 ]

NoReason == [kind |-> "", age |-> 0, cap |-> 0, wins |-> 0, losses |-> 0, draws |-> 0]
NoAge == 0

CareerState ==
    [ boxer |-> create_boxer,
      month |-> 1,
      year |-> 1,
      career_months |-> 0,
      amateur_progress |-> AmateurProgress,
      pro_career |-> ProCareer,
      history |-> << >>,
      is_retired |-> FALSE,
      retirement_age |-> NoAge,
      retirement_reason |-> NoReason ]

(***************************************************************************)
(* pro_spending.py                                                         *)
(***************************************************************************)
ensure_staff_levels(s) ==
    [s EXCEPT !.pro_career.staff_levels =
        [k \in StaffKeys |-> IF @[k] = AbsentLevel THEN 0 ELSE Max(0, @[k])]]

(* _staff_level backfills the staff dict as a side effect: the functions   *)
(* below return the pair of the value and the state they leave behind.     *)
_staff_level(s, staff_key) ==
    LET s1 == ensure_staff_levels(s)
    IN  [value |-> s1.pro_career.staff_levels[staff_key], state |-> s1]

_elite_coach_bonus(s) ==
    IF ~s.pro_career.is_active THEN [value |-> 0, state |-> s]
    ELSE LET rules == RulesProSpending.staff_upgrades["elite_coach"]
             level == _staff_level(s, "elite_coach")
         IN  [value |-> Max(0, level.value * rules.training_focus_bonus_per_level),
              state |-> level.state]

_nutritionist_level(s) ==
    IF ~s.pro_career.is_active THEN [value |-> 0, state |-> s]
    ELSE _staff_level(s, "nutritionist")

adjusted_fatigue_gain(s, base_gain) ==
    IF base_gain <= 0 THEN [value |-> 0, state |-> s]
    ELSE LET rules == RulesProSpending.staff_upgrades["nutritionist"]
             level == _nutritionist_level(s)
             reduction == level.value * rules.fatigue_gain_reduction_per_level
         IN  [value |-> Max(0, base_gain - reduction), state |-> level.state]

adjusted_injury_risk_gain(s, base_gain) ==
    IF base_gain <= 0 THEN [value |-> 0, state |-> s]
    ELSE LET rules == RulesProSpending.staff_upgrades["nutritionist"]
             level == _nutritionist_level(s)
             reduction == level.value * rules.injury_risk_gain_reduction_per_level
         IN  [value |-> Max(0, base_gain - reduction), state |-> level.state]

_rest_fatigue_bonus(s) ==
    LET rules == RulesProSpending.staff_upgrades["nutritionist"]
        level == _nutritionist_level(s)
    IN  [value |-> level.value * rules.rest_recovery_bonus_per_level, state |-> level.state]

_rest_injury_bonus(s) ==
    LET rules == RulesProSpending.staff_upgrades["nutritionist"]
        level == _nutritionist_level(s)
    IN  [value |-> level.value * rules.injury_risk_rest_bonus_per_level, state |-> level.state]

(* percent: max(0.55, min(1.0, 1.0 - level * per_level)) *)
age_decline_reduction_factor(s) ==
    IF ~s.pro_career.is_active THEN [value |-> 100, state |-> s]
    ELSE LET rules == RulesProSpending.staff_upgrades["sports_science"]
             level == _staff_level(s, "sports_science")
         IN  [value |-> Max(55, Min(100, 100 - level.value * rules.age_decline_reduction_per_level)),
              state |-> level.state]

(* percent: max(1.0, 1.0 + level * per_level) *)
age_iq_growth_bonus_factor(s) ==
    IF ~s.pro_career.is_active THEN [value |-> 100, state |-> s]
    ELSE LET rules == RulesProSpending.staff_upgrades["sports_science"]
             level == _staff_level(s, "sports_science")
         IN  [value |-> Max(100, 100 + level.value * rules.ring_iq_growth_bonus_per_level),
              state |-> level.state]

_add_focus_points(stats, focus, amount) ==
    IF amount <= 0 THEN stats
    ELSE [stats EXCEPT ![focus] = Min(RulesAttributeModel.stat_limits.max, @ + amount)]

(* the stats after the coach's bonus points on the focus *)
CoachedFocus(coach, focus, multiplier) ==
    [coach.state EXCEPT !.boxer.stats = _add_focus_points(@, focus, coach.value * multiplier)]

(* the fatigue and the injury risk after an adjusted gain *)
WithFatigue(gain) ==
    [gain.state EXCEPT !.boxer.fatigue = clamp_int(@ + gain.value, 0, MAX_FATIGUE)]

WithInjuryRisk(gain) ==
    [gain.state EXCEPT !.boxer.injury_risk = clamp_int(@ + gain.value, 0, MAX_INJURY_RISK)]

apply_standard_training(s, focus) ==
    WithInjuryRisk(adjusted_injury_risk_gain(
        WithFatigue(adjusted_fatigue_gain(
            CoachedFocus(_elite_coach_bonus([s EXCEPT !.boxer.stats = training_gain(@, focus)]),
                         focus, 1),
            1)),
        2))

apply_rest_month(s) ==
    LET fatigue_bonus == _rest_fatigue_bonus(s)
        injury_bonus == _rest_injury_bonus(fatigue_bonus.state)
        fatigue_reduction == 3 + fatigue_bonus.value
        injury_reduction == 3 + injury_bonus.value
    IN  [injury_bonus.state EXCEPT
           !.boxer.fatigue = clamp_int(@ - fatigue_reduction, 0, MAX_FATIGUE),
           !.boxer.injury_risk = clamp_int(@ - injury_reduction, 0, MAX_INJURY_RISK)]

RECURSIVE TrainingCycles(_, _, _)
TrainingCycles(stats, focus, cycles) ==
    IF cycles = 0 THEN stats
    ELSE TrainingCycles(training_gain(stats, focus), focus, cycles - 1)

(* "" when the call returns, else the error it raises *)
special_training_camp_error(s, focus) ==
    IF ~s.pro_career.is_active THEN "not pro"
    ELSE IF s.pro_career.purse_balance < RulesProSpending.special_camp.cost
    THEN "insufficient purse balance"
    ELSE IF ~KnownFocus(focus) THEN "unknown focus"
    ELSE ""

CampWork(s, focus, rules) ==
    WithInjuryRisk(adjusted_injury_risk_gain(
        WithFatigue(adjusted_fatigue_gain(
            CoachedFocus(
                _elite_coach_bonus(
                    [s EXCEPT !.boxer.stats =
                                  TrainingCycles(@, focus, Max(1, rules.training_cycles))]),
                focus, rules.coach_bonus_multiplier),
            rules.fatigue_gain)),
        rules.injury_risk_gain))

special_training_camp(s, focus) ==
    [CampWork(s, focus, RulesProSpending.special_camp) EXCEPT
       !.pro_career.purse_balance = Max(0, @ - RulesProSpending.special_camp.cost)]

medical_recovery_error(s) ==
    IF ~s.pro_career.is_active THEN "not pro"
    ELSE IF s.pro_career.purse_balance < RulesProSpending.medical_recovery.cost
    THEN "insufficient purse balance"
    ELSE ""

medical_recovery(s) ==
    LET rules == RulesProSpending.medical_recovery
        fatigue_reduction == Max(0, rules.fatigue_reduction)
        injury_reduction == Max(0, rules.injury_risk_reduction)
    IN  [s EXCEPT
           !.boxer.fatigue = clamp_int(@ - fatigue_reduction, 0, MAX_FATIGUE),
           !.boxer.injury_risk = clamp_int(@ - injury_reduction, 0, MAX_INJURY_RISK),
           !.pro_career.purse_balance = Max(0, @ - rules.cost)]

(* purchase_staff_upgrade backfills the staff dict before it checks the    *)
(* level and the balance: the state an error leaves behind is the          *)
(* backfilled one.                                                         *)
purchase_staff_upgrade_error(s, staff_key) ==
    IF ~s.pro_career.is_active THEN "not pro"
    ELSE IF staff_key \notin StaffKeys THEN "unknown staff upgrade"
    ELSE LET cfg == RulesProSpending.staff_upgrades[staff_key]
             level == _staff_level(s, staff_key).value
         IN  IF level >= cfg.max_level THEN "max level"
             ELSE IF level >= Len(cfg.cost_by_level) THEN "no configured cost"
             ELSE IF s.pro_career.purse_balance < cfg.cost_by_level[level + 1]
             THEN "insufficient purse balance"
             ELSE ""

purchase_staff_upgrade(s, staff_key) ==
    LET err == purchase_staff_upgrade_error(s, staff_key)
    IN  IF err \in {"not pro", "unknown staff upgrade"} THEN s
        ELSE LET s1 == ensure_staff_levels(s)
                 level == s1.pro_career.staff_levels[staff_key]
             IN  IF err # "" THEN s1
                 ELSE [s1 EXCEPT
                         !.pro_career.purse_balance =
                             Max(0, @ - RulesProSpending.staff_upgrades[staff_key].cost_by_level[level + 1]),
                         !.pro_career.staff_levels[staff_key] = level + 1]

(***************************************************************************)
(* career_clock.py                                                         *)
(***************************************************************************)
(* delta scaled by the product of three percent factors, rounded as        *)
(* int(round(.)); round(-x) = -round(x)                                    *)
_resolve_delta(delta, stat_name, age, profile, decline_accel_per_year, sports_science_decline, sports_science_iq) ==
    IF delta < 0
    THEN IF age < profile.decline_onset_age THEN 0
         ELSE LET years_into_decline == Max(0, age - profile.decline_onset_age)
                  age_accel == 100 + years_into_decline * decline_accel_per_year
                  magnitude == PyRound((-delta) * profile.decline_severity * age_accel
                                           * sports_science_decline, 1000000)
              IN  IF magnitude # 0 THEN -magnitude ELSE -1
    ELSE IF delta > 0 /\ stat_name = "ring_iq"
    THEN Max(1, PyRound(delta * profile.iq_growth_factor * sports_science_iq, 10000))
    ELSE delta

BracketFor(age) ==
    LET brackets == RulesAgingModel.age_brackets
        hits == {i \in 1..Len(brackets) :
                    brackets[i].min_age <= age /\ age <= brackets[i].max_age}
    IN  IF hits = {} THEN 0 ELSE CHOOSE i \in hits : \A j \in hits : i <= j

_birthday_stat_changes(s) ==
    LET rules == RulesAgingModel
        age == s.boxer.age
        b == BracketFor(age)
    IN  IF b = 0 THEN s
        ELSE LET deltas == rules.age_brackets[b].stat_deltas
                 decline == age_decline_reduction_factor(s)
                 iq == age_iq_growth_bonus_factor(decline.state)
                 s1 == iq.state
             IN  [s1 EXCEPT !.boxer.stats =
                    [n \in StatNames |->
                        IF deltas[n] = 0 THEN @[n]
                        ELSE clamp_int(@[n] + _resolve_delta(deltas[n], n, age, s.boxer.aging_profile,
                                                  rules.decline_acceleration_per_year,
                                                  decline.value, iq.value),
                                       rules.stat_limits.min, rules.stat_limits.max)]]

(* a month of the clock with the birthday a month late *)
OneMonth_late(s) ==
    LET s1 == IF s.month + 1 > 12
              THEN [s EXCEPT !.month = 1, !.year = @ + 1]
              ELSE [s EXCEPT !.month = @ + 1]
        s2 == [s1 EXCEPT !.career_months = @ + 1]
    IN  IF s2.career_months % 12 = 1 /\ s2.career_months > 1
        THEN _birthday_stat_changes([s2 EXCEPT !.boxer.age = @ + 1])
        ELSE s2

OneMonth(s) ==
    LET s1 == IF s.month + 1 > 12
              THEN [s EXCEPT !.month = 1, !.year = @ + 1]
              ELSE [s EXCEPT !.month = @ + 1]
        s2 == [s1 EXCEPT !.career_months = @ + 1]
    IN  IF s2.career_months % 12 = 0
        THEN _birthday_stat_changes([s2 EXCEPT !.boxer.age = @ + 1])
        ELSE s2

RECURSIVE advance_month(_, _)
advance_month(s, months) ==
    IF months = 0 THEN s ELSE advance_month(OneMonth(s), months - 1)

(***************************************************************************)
(* experience_engine.py                                                    *)
(***************************************************************************)
(* A fight result as the engines read it: winner, method, rounds_completed *)
_outcome_key(boxer_name, result) ==
    IF result.winner = boxer_name THEN "win"
    ELSE IF result.winner = DrawName THEN "draw"
    ELSE "loss"

fight_experience_gain(stage, boxer_name, opponent_rating, result) ==
    LET cfg == RulesExperienceModel
        outcome_key == _outcome_key(boxer_name, result)
        base == cfg.base_points_per_fight[stage] + cfg.result_points[outcome_key]
        scale == cfg.rating_bonus_scale
        diff == opponent_rating - 50
        (* int(round(x)) of a negative x is never above 0 *)
        bonus == IF diff <= 0 THEN 0
                 ELSE Max(0, PyRound(diff * scale.num, scale.den))
        ko == IF result.winner = boxer_name /\ result.method \in {"KO", "TKO"}
              THEN cfg.ko_bonus ELSE 0
    IN  clamp_int(base + bonus + ko, 1, cfg.max_gain_per_fight)

(* add_experience_points storing the gain in place of the sum *)
add_experience_points_stored(s, gain) ==
    [s EXCEPT !.boxer.experience_points = Max(0, gain)]

add_experience_points(s, gain) ==
    LET applied_gain == Max(0, gain)
    IN  [s EXCEPT !.boxer.experience_points = Max(0, @ + applied_gain)]

(***************************************************************************)
(* fight_aftermath.py                                                      *)
(***************************************************************************)
_rounded_gain(num, den, base_gain) ==
    IF base_gain <= 0 THEN 0 ELSE Max(1, PyRound(num, den))

(* rounds_factor = (1 - w) + ratio * w with w in percent and               *)
(* ratio = clamp(completed / scheduled, 0, 1):                             *)
(* rounds_factor = RoundsFactorNum / (100 * scheduled)                     *)
RoundsFactorNum(rounds_completed, rounds_scheduled, weight) ==
    LET sched == Max(1, rounds_scheduled)
        done == Min(sched, Max(0, rounds_completed))
        w == Max(0, Min(100, weight))
    IN  (100 - w) * sched + done * w

calculate_post_fight_impact(stage, boxer_name, result, rounds_scheduled) ==
    LET impact_cfg == RulesFightModel[stage]
        base_fatigue == Max(0, impact_cfg.base_fatigue_gain)
        base_injury == Max(0, impact_cfg.base_injury_risk_gain)
        outcome == _outcome_key(boxer_name, result)
        rf == RoundsFactorNum(result.rounds_completed, rounds_scheduled,
                              impact_cfg.rounds_completed_weight)
        stoppage == result.method \in {"KO", "TKO"}
        sf == IF stoppage THEN impact_cfg.stoppage_multipliers[outcome].fatigue ELSE 100
        si == IF stoppage THEN impact_cfg.stoppage_multipliers[outcome].injury ELSE 100
        den == 100 * 100 * Max(1, rounds_scheduled) * 100
    IN  [ fatigue_gain |->
            _rounded_gain(base_fatigue * impact_cfg.outcome_multipliers[outcome].fatigue * rf * sf,
                          den, base_fatigue),
          injury_risk_gain |->
            _rounded_gain(base_injury * impact_cfg.outcome_multipliers[outcome].injury * rf * si,
                          den, base_injury) ]

(***************************************************************************)
(* retirement_engine.py; chances and rolls in permille                     *)
(***************************************************************************)
_base_age_chance(age) ==
    LET bands == RulesRetirementModel.age_bands
        hits == {i \in 1..Len(bands) : bands[i].min_age <= age /\ age <= bands[i].max_age}
    IN  IF hits = {} THEN 0
        ELSE bands[CHOOSE i \in hits : \A j \in hits : i <= j].base_chance

_active_record(s) ==
    IF s.pro_career.is_active THEN s.pro_career.record ELSE s.boxer.record

_stage_history(s) ==
    LET stage == IF s.pro_career.is_active THEN "pro" ELSE "amateur"
    IN  SelectSeq(s.history, LAMBDA entry : entry.stage = stage)

LastWindow(seq, window) ==
    IF Len(seq) <= window THEN seq ELSE SubSeq(seq, Len(seq) - window + 1, Len(seq))

_recent_loss_streak(s, window) ==
    LET recent == LastWindow(_stage_history(s), window)
        n == Len(recent)
        NotLoss(i) == recent[i].result.winner \in {BoxerName, DrawName}
        stops == {i \in 1..n : NotLoss(i)}
    IN  IF stops = {} THEN n
        ELSE n - (CHOOSE i \in stops : \A j \in stops : j <= i)

_recent_no_win(s, window) ==
    LET recent == LastWindow(_stage_history(s), window)
    IN  IF Len(recent) = 0 THEN FALSE
        ELSE \A i \in 1..Len(recent) : recent[i].result.winner # BoxerName

_has_lineal_title(s) ==
    \E d \in DivisionNames : s.pro_career.lineal_champions[d] = BoxerName

(* NoRank when no organization ranks the boxer *)
_best_rank(s) ==
    LET ranks == {s.pro_career.rankings[o] : o \in OrgNames} \ {NoRank, AbsentRank}
    IN  IF ranks = {} THEN NoRank ELSE CHOOSE r \in ranks : \A q \in ranks : r <= q

_apply_performance_modifiers(s, chance) ==
    LET perf == RulesRetirementModel.performance
        record == _active_record(s)
        total == record.wins + record.losses + record.draws
        (* win_rate = 0.0 if total = 0 else wins / total;                  *)
        (* win_rate < x  <=>  1000 * wins < x * Max(1, total)              *)
        t == Max(1, total)
        rate_mod ==
            IF total >= perf.sample_fights_min
            THEN IF 1000 * record.wins < perf.win_rate_low * t THEN perf.mod_low
                 ELSE IF 1000 * record.wins < perf.win_rate_mid * t THEN perf.mod_mid
                 ELSE IF 1000 * record.wins > perf.win_rate_elite * t THEN perf.mod_elite
                 ELSE IF 1000 * record.wins > perf.win_rate_high * t THEN perf.mod_high
                 ELSE 0
            ELSE 0
        loss_streak == _recent_loss_streak(s, perf.recent_window)
        streak_mod == IF loss_streak > 1
                      THEN perf.recent_loss_streak_step * (loss_streak - 1) ELSE 0
        no_win_mod == IF _recent_no_win(s, perf.recent_window)
                      THEN perf.recent_no_win_bonus ELSE 0
        injury_mod == IF s.boxer.injury_risk > perf.injury_threshold
                      THEN (s.boxer.injury_risk - perf.injury_threshold) * perf.injury_per_point
                      ELSE 0
        fatigue_mod == IF s.boxer.fatigue > perf.fatigue_threshold
                       THEN (s.boxer.fatigue - perf.fatigue_threshold) * perf.fatigue_per_point
                       ELSE 0
    IN  chance + rate_mod + streak_mod + no_win_mod + injury_mod + fatigue_mod

_apply_protection_modifiers(s, chance) ==
    IF ~s.pro_career.is_active THEN chance
    ELSE LET perf == RulesRetirementModel.performance
             champion == IF _has_lineal_title(s) THEN perf.champion_protection ELSE 0
             best_rank == _best_rank(s)
             rank == IF best_rank # NoRank /\ best_rank <= perf.top_rank_cutoff
                     THEN (perf.top_rank_cutoff - best_rank + 1) * perf.top_rank_protection_per_step
                     ELSE 0
             pro_record == s.pro_career.record
             pro_total == pro_record.wins + pro_record.losses + pro_record.draws
             early == IF pro_total <= perf.early_career_fights /\ s.boxer.age < 35
                      THEN perf.early_career_protection ELSE 0
         IN  chance - champion - rank - early

(* the chance of the age band with the modifiers, within chance_bounds *)
BoundedChance(s, chance) ==
    IF chance <= 0 THEN 0
    ELSE Max(RulesRetirementModel.chance_bounds.min,
             Min(RulesRetirementModel.chance_bounds.max,
                 _apply_protection_modifiers(s, _apply_performance_modifiers(s, chance))))

retirement_chance_unbanded(s) ==
    IF s.is_retired THEN 1000
    ELSE IF s.boxer.age >= RulesRetirementModel.hard_age_cap THEN 1000
    ELSE Max(RulesRetirementModel.chance_bounds.min,
             Min(RulesRetirementModel.chance_bounds.max,
                 _apply_protection_modifiers(s,
                     _apply_performance_modifiers(s, _base_age_chance(s.boxer.age)))))

retirement_chance(s) ==
    IF s.is_retired THEN 1000
    ELSE IF s.boxer.age >= RulesRetirementModel.hard_age_cap THEN 1000
    ELSE BoundedChance(s, _base_age_chance(s.boxer.age))

_retirement_reason(s, forced) ==
    IF forced
    THEN [kind |-> "age_cap", age |-> s.boxer.age, cap |-> RulesRetirementModel.hard_age_cap,
          wins |-> 0, losses |-> 0, draws |-> 0]
    ELSE IF s.pro_career.is_active
    THEN [kind |-> "pro", age |-> s.boxer.age, cap |-> 0,
          wins |-> s.pro_career.record.wins, losses |-> s.pro_career.record.losses,
          draws |-> s.pro_career.record.draws]
    ELSE [kind |-> "amateur", age |-> s.boxer.age, cap |-> 0,
          wins |-> s.boxer.record.wins, losses |-> s.boxer.record.losses,
          draws |-> s.boxer.record.draws]

NoRoll == -1

(* The result of evaluate_retirement is the pair of the                    *)
(* RetirementEvaluation and the state left behind.  The career retires:    *)
Retires(s, reason, forced, chance, roll) ==
    [eval |-> [is_retired |-> TRUE, newly_retired |-> TRUE, forced |-> forced,
               chance |-> chance, roll |-> roll, reason |-> reason],
     state |-> [s EXCEPT !.is_retired = TRUE, !.retirement_age = s.boxer.age,
                         !.retirement_reason = reason]]

(* the career goes on *)
StaysActive(s, chance, roll) ==
    [eval |-> [is_retired |-> FALSE, newly_retired |-> FALSE, forced |-> FALSE,
               chance |-> chance, roll |-> roll, reason |-> NoReason],
     state |-> s]

(* the roll ignored: a positive chance retires the boxer *)
RollsRetirement_unrolled(s, roll, chance) ==
    IF chance <= 0 THEN StaysActive(s, 0, NoRoll)
    ELSE Retires(s, _retirement_reason(s, FALSE), FALSE, chance, roll)

(* the roll against the chance, with the value rng.random() delivers *)
RollsRetirement(s, roll, chance) ==
    IF chance <= 0 THEN StaysActive(s, 0, NoRoll)
    ELSE IF roll < chance THEN Retires(s, _retirement_reason(s, FALSE), FALSE, chance, roll)
    ELSE StaysActive(s, chance, roll)

(* evaluate_retirement without the hard age cap: every age rolls *)
EvaluateActive_uncapped(s, roll) == RollsRetirement(s, roll, retirement_chance(s))

(* evaluate_retirement past the check of is_retired *)
EvaluateActive(s, roll) ==
    IF s.boxer.age >= RulesRetirementModel.hard_age_cap
    THEN Retires(s, _retirement_reason(s, TRUE), TRUE, 1000, NoRoll)
    ELSE RollsRetirement(s, roll, retirement_chance(s))

(* evaluate_retirement without its first check: a retired career is        *)
(* evaluated again                                                         *)
evaluate_retirement_again(s, roll) == EvaluateActive(s, roll)

evaluate_retirement(s, roll) ==
    IF s.is_retired
    THEN [eval |-> [is_retired |-> TRUE, newly_retired |-> FALSE, forced |-> FALSE,
                    chance |-> 1000, roll |-> NoRoll, reason |-> s.retirement_reason],
          state |-> s]
    ELSE EvaluateActive(s, roll)

(***************************************************************************)
(* amateur_circuit.py                                                      *)
(***************************************************************************)
(* the first tier of the list whose range holds the count, else the last *)
TierHits(tiers, count) ==
    {i \in 1..Len(tiers) : tiers[i].min_fights <= count /\ count <= tiers[i].max_fights}

FirstOf(hits, otherwise) ==
    IF hits # {} THEN CHOOSE i \in hits : \A j \in hits : i <= j ELSE otherwise

TierFor(tiers, count) == tiers[FirstOf(TierHits(tiers, count), Len(tiers))]

_current_tier_by_fights(fights_taken) ==
    TierFor(RulesAmateurProgression.tiers, fights_taken)

current_tier(s) == _current_tier_by_fights(s.amateur_progress.fights_taken)

(* generate_opponent without its guard *)
generate_opponent_error_open(s) == ""

generate_opponent_error(s) ==
    IF s.pro_career.is_active THEN "unavailable after turning pro" ELSE ""

(* the opponents generate_opponent can return, as far as the engines read  *)
(* them: name and rating (the ends of the tier's rating range)             *)
generate_opponent(s) ==
    LET tier == current_tier(s)
    IN  {[name |-> n, rating |-> r] :
            n \in {"Alex Cruz"}, r \in {tier.opponent_rating_min, tier.opponent_rating_max}}

(* the results simulate_fight can return over the scheduled distance *)
FightResults(opponent_name, rounds) ==
    {[winner |-> BoxerName, method |-> "TKO", rounds_completed |-> 1],
     [winner |-> DrawName, method |-> "DRAW", rounds_completed |-> rounds],
     [winner |-> opponent_name, method |-> "UD", rounds_completed |-> rounds]}

(* notes of a history entry: the lineal note, the sanctioning bodies, the  *)
(* rank updates and the title notes; all empty for an amateur fight        *)
NoNotes == [lineal |-> "", bodies |-> << >>, ranks |-> << >>, titles |-> << >>]

apply_fight_result_error(s) ==
    IF s.pro_career.is_active THEN "unavailable after turning pro" ELSE ""

(* the record, the points and the popularity after the result *)
AmateurOutcome(s, points_cfg, result, ko) ==
    IF result.winner = BoxerName
    THEN [s EXCEPT !.boxer.record.wins = @ + 1,
                   !.boxer.record.kos = IF ko THEN @ + 1 ELSE @,
                   !.boxer.amateur_points =
                       @ + points_cfg.win + (IF ko THEN points_cfg.ko_bonus ELSE 0),
                   !.boxer.popularity = @ + 2]
    ELSE IF result.winner = DrawName
    THEN [s EXCEPT !.boxer.record.draws = @ + 1,
                   !.boxer.amateur_points = @ + points_cfg.draw,
                   !.boxer.popularity = @ + 1]
    ELSE [s EXCEPT !.boxer.record.losses = @ + 1,
                   !.boxer.amateur_points = @ + points_cfg.loss,
                   !.boxer.popularity = Max(1, @ - 1)]

(* the wear of the fight, capped at MAX_FATIGUE and MAX_INJURY_RISK *)
AmateurWear(s, impact) ==
    LET fatigue_gain == adjusted_fatigue_gain(s, impact.fatigue_gain)
        injury_gain == adjusted_injury_risk_gain(fatigue_gain.state, impact.injury_risk_gain)
    IN  [injury_gain.state EXCEPT
           !.boxer.fatigue = Min(MAX_FATIGUE, @ + fatigue_gain.value),
           !.boxer.injury_risk = Min(MAX_INJURY_RISK, @ + injury_gain.value)]

(* the entry of the history and the progress through the tiers *)
AmateurLog(s, opponent, result) ==
    [s EXCEPT !.history = Append(@,
                 [opponent_name |-> opponent.name, opponent_rating |-> opponent.rating,
                  result |-> result, stage |-> "amateur", purse |-> 0, notes |-> NoNotes]),
              !.amateur_progress.fights_taken = @ + 1,
              !.amateur_progress.tier =
                  _current_tier_by_fights(s.amateur_progress.fights_taken + 1).name]

AmateurFight(s, tier, opponent, result) ==
    AmateurLog(
        AmateurWear(
            add_experience_points(
                AmateurOutcome(s, tier.points, result, result.method \in {"KO", "TKO"}),
                fight_experience_gain("amateur", BoxerName, opponent.rating, result)),
            calculate_post_fight_impact("amateur", BoxerName, result, tier.rounds)),
        opponent, result)

apply_fight_result(s, opponent, result) == AmateurFight(s, current_tier(s), opponent, result)

pro_readiness_status(s) ==
    LET readiness == RulesAmateurProgression.pro_readiness
    IN  [current_age |-> s.boxer.age,
         current_fights |-> s.amateur_progress.fights_taken,
         current_points |-> s.boxer.amateur_points,
         min_age |-> readiness.min_age,
         min_fights |-> readiness.min_fights,
         min_points |-> readiness.min_points]

is_ready(status) ==
    /\ status.current_age >= status.min_age
    /\ status.current_fights >= status.min_fights
    /\ status.current_points >= status.min_points

pro_ready(s) == is_ready(pro_readiness_status(s))

(***************************************************************************)
(* pro_career.py: organizations, tiers, seeded title holders               *)
(***************************************************************************)
_ranking_slots(name) ==
    LET i == CHOOSE j \in OrgIndex : RulesOrganizations[j].name = name
    IN  Max(1, RulesOrganizations[i].ranking_slots)

_total_pro_fights(s) ==
    s.pro_career.record.wins + s.pro_career.record.losses + s.pro_career.record.draws

_tier_by_fights(fight_count) == TierFor(RulesProTiers, fight_count)

pro_tier(s) == _tier_by_fights(_total_pro_fights(s))

(* _seeded_name(state, label): a name of the pool fixed by the boxer's     *)
(* name and the label "lineal:<division>" or "<org>:champ:<division>"      *)
SeededLineal ==
    [d \in DivisionNames |->
        IF d = "super_lightweight" THEN "Ramon Diaz"
        ELSE IF d = "welterweight" THEN "Victor Hale"
        ELSE "Tyrell Banks"]

SeededChampion ==
    [o \in OrgNames |-> [d \in DivisionNames |->
        IF o = "WBC"
        THEN (IF d = "super_lightweight" THEN "Julian Ortiz"
              ELSE IF d = "welterweight" THEN "Andrei Volkov"
              ELSE "Caleb Price")
        ELSE (IF d = "super_lightweight" THEN "Javier Luna"
              ELSE IF d = "welterweight" THEN "Noah Briggs"
              ELSE "Darius King")]]

_seeded_name(kind, org, division) ==
    IF kind = "lineal" THEN SeededLineal[division] ELSE SeededChampion[org][division]

ensure_lineal_titles(s) ==
    IF ~s.pro_career.is_active THEN s
    ELSE [s EXCEPT
            !.pro_career.lineal_champions =
                [d \in DivisionNames |->
                    IF @[d] = AbsentName THEN _seeded_name("lineal", "", d) ELSE @[d]],
            !.pro_career.lineal_defenses =
                [d \in DivisionNames |-> IF @[d] = AbsentRank THEN 0 ELSE @[d]]]

ensure_organization_titles(s) ==
    IF ~s.pro_career.is_active THEN s
    ELSE [s EXCEPT
            !.pro_career.organization_champions =
                [o \in OrgNames |-> [d \in DivisionNames |->
                    IF @[o][d] = AbsentName THEN _seeded_name("champ", o, d) ELSE @[o][d]]],
            !.pro_career.organization_defenses =
                [o \in OrgNames |-> [d \in DivisionNames |->
                    IF @[o][d] = AbsentRank THEN 0 ELSE @[o][d]]]]

(* the lookup proper, on the ledger ensure_organization_titles leaves *)
organization_division_champion(s, organization, division) ==
    IF ~s.pro_career.is_active THEN NoName
    ELSE ensure_organization_titles(s).pro_career.organization_champions[organization][division]

(* the first division of the ledger the boxer is lineal champion of; NoName *)
(* when the boxer holds no lineal title                                    *)
HeldDivision(lineal_champions) ==
    LET held == {i \in DivIndex : lineal_champions[_weight_class_names[i]] = BoxerName}
    IN  IF held = {} THEN NoName
        ELSE _weight_class_names[CHOOSE i \in held : \A j \in held : i <= j]

player_lineal_division(s) ==
    IF ~s.pro_career.is_active THEN NoName
    ELSE HeldDivision(ensure_lineal_titles(s).pro_career.lineal_champions)

current_division_lineal_champion(s) ==
    IF ~s.pro_career.is_active THEN NoName
    ELSE ensure_lineal_titles(s).pro_career.lineal_champions[s.boxer.division]

SeqContains(seq, x) == \E i \in 1..Len(seq) : seq[i] = x

(* ensure_rankings rebuilding the table whenever an organization is        *)
(* missing from it: the ranks that were present are lost                   *)
EnsureRankTable_rebuilt(s) ==
    [s EXCEPT !.pro_career.organization_focus =
                  IF @ \notin OrgNames THEN _organization_names[1] ELSE @,
              !.pro_career.rankings =
                  IF \E o \in OrgNames : @[o] = AbsentRank
                  THEN [o \in OrgNames |-> NoRank] ELSE @]

(* the focus organization and the rank of every organization backfilled *)
EnsureRankTable(s) ==
    [s EXCEPT !.pro_career.organization_focus =
                  IF @ \notin OrgNames THEN _organization_names[1] ELSE @,
              !.pro_career.rankings =
                  [o \in OrgNames |-> IF @[o] = AbsentRank THEN NoRank ELSE @[o]]]

(* the current division among the divisions fought, on a pro career *)
EnsureDivisionFought(s) ==
    IF ~s.pro_career.is_active THEN s
    ELSE [s EXCEPT !.pro_career.divisions_fought =
                       IF SeqContains(@, s.boxer.division) THEN @
                       ELSE Append(@, s.boxer.division)]

ensure_rankings(s) ==
    EnsureDivisionFought(
        ensure_organization_titles(ensure_lineal_titles(EnsureRankTable(s))))

(***************************************************************************)
(* pro_career.py: division changes                                         *)
(***************************************************************************)
DivisionIndex(name) == CHOOSE i \in DivIndex : _weight_class_names[i] = name

_weight_class_by_name(name) == RulesWeightClasses[DivisionIndex(name)]

available_division_moves(s) ==
    IF ~s.pro_career.is_active THEN {}
    ELSE IF s.boxer.division \notin DivisionNames THEN {}
    ELSE LET idx == DivisionIndex(s.boxer.division)
         IN  {_weight_class_names[i] : i \in {idx - 1, idx + 1} \cap DivIndex}

_blended_stats_for_division(s, target_weight_class) ==
    LET base_stats == build_stats(PlayerHeightInches, target_weight_class.max_lbs,
                                  target_weight_class)
    IN  [n \in StatNames |->
            _clamp_stat(PyRound(s.boxer.stats[n] * 72 + base_stats[n] * 28, 100))]

(* target_division.strip().lower() on the texts a caller passes *)
TargetTexts ==
    {"welterweight", "super_welterweight", " Super_Lightweight ", "", "cruiserweight"}

StripLower(text) ==
    IF text = " Super_Lightweight " THEN "super_lightweight" ELSE text

(* the checks of change_division letting through every known division at *)
(* most one step away, the current one included                            *)
change_division_error_lenient(s, target_division) ==
    IF ~s.pro_career.is_active THEN "turn pro before changing divisions"
    ELSE LET target == StripLower(target_division)
         IN  IF target = "" THEN "target division is required"
             ELSE IF target \notin DivisionNames THEN "unknown division"
             ELSE IF Abs(DivisionIndex(target) - DivisionIndex(s.boxer.division)) > 1
             THEN "one division at a time"
             ELSE ""

change_division_error(s, target_division) ==
    IF ~s.pro_career.is_active THEN "turn pro before changing divisions"
    ELSE LET target == StripLower(target_division)
         IN  IF target = "" THEN "target division is required"
             ELSE IF target = s.boxer.division THEN "already in that division"
             ELSE IF target \notin DivisionNames THEN "unknown division"
             ELSE IF Abs(DivisionIndex(target) - DivisionIndex(s.boxer.division)) # 1
             THEN "one division at a time"
             ELSE ""

(* the values _seed_rank_from_p4p can return for the boxer's standing in   *)
(* the pound-for-pound table: None below two pro fights, else a rank of    *)
(* one of the brackets 4..6, ..., 31..36, or None                          *)
SeedRanks == {NoRank, 4, 36}

_seed_rank_from_p4p(s) ==
    IF _total_pro_fights(s) < 2 THEN {NoRank} ELSE SeedRanks

Jitters == {-1, 1}

(* the wear of a division change without the caps *)
DivisionWear_uncapped(s, fatigue_gain, injury_gain) ==
    [s EXCEPT !.boxer.fatigue = @ + fatigue_gain,
              !.boxer.injury_risk = @ + injury_gain]

DivisionWear(s, fatigue_gain, injury_gain) ==
    [s EXCEPT !.boxer.fatigue = Min(12, @ + fatigue_gain),
              !.boxer.injury_risk = Min(100, @ + injury_gain)]

(* change_division leaving the lineal title with the boxer who leaves the  *)
(* division                                                                *)
VacateLineal_kept(s) == s

(* the lineal title of the division the boxer leaves *)
VacateLineal(s) ==
    IF player_lineal_division(s) = s.boxer.division
    THEN [s EXCEPT !.pro_career.lineal_champions[s.boxer.division] = NoName,
                   !.pro_career.lineal_defenses[s.boxer.division] = 0]
    ELSE s

(* the organization titles of the division the boxer leaves, on the ledger *)
(* ensure_organization_titles leaves                                       *)
VacateTitles(s, champions) ==
    [s EXCEPT
       !.pro_career.organization_champions =
          [o \in OrgNames |->
              IF champions[o][s.boxer.division] = BoxerName
              THEN [@[o] EXCEPT ![s.boxer.division] = NoName] ELSE @[o]],
       !.pro_career.organization_defenses =
          [o \in OrgNames |->
              IF champions[o][s.boxer.division] = BoxerName
              THEN [@[o] EXCEPT ![s.boxer.division] = 0] ELSE @[o]]]

(* change_division leaving the organization titles with the boxer who      *)
(* leaves the division                                                     *)
VacateOrganizationTitles_kept(s) == s

VacateOrganizationTitles(s) ==
    VacateTitles(ensure_organization_titles(s),
                 ensure_organization_titles(s).pro_career.organization_champions)

(* the rank of every organization from the seed rank and its jitter *)
SeedRankings(s, seed_rank, jitter) ==
    [s EXCEPT !.pro_career.rankings =
        [o \in OrgNames |->
            IF seed_rank = NoRank THEN NoRank
            ELSE Max(1, Min(_ranking_slots(o), seed_rank + jitter[o]))]]

(* the blended stats after the cut or the gain *)
ShiftedStats(merged, moving_down) ==
    IF moving_down
    THEN [merged EXCEPT !["stamina"] = _clamp_stat(@ - 2),
                        !["chin"] = _clamp_stat(@ - 2),
                        !["power"] = _clamp_stat(@ - 1),
                        !["speed"] = _clamp_stat(@ + 1)]
    ELSE [merged EXCEPT !["power"] = _clamp_stat(@ + 1),
                        !["chin"] = _clamp_stat(@ + 1),
                        !["speed"] = _clamp_stat(@ - 1),
                        !["footwork"] = _clamp_stat(@ - 1)]

(* stats, weight and division of the boxer in the target division *)
Relocated(s, target, target_weight_class, moving_down) ==
    [s EXCEPT !.boxer.stats =
                  ShiftedStats(_blended_stats_for_division(s, target_weight_class),
                               moving_down),
              !.boxer.weight_lbs = target_weight_class.max_lbs,
              !.boxer.division = target]

(* the move counted and the target among the divisions fought *)
DivisionCounted(s, target) ==
    [s EXCEPT !.pro_career.division_changes = @ + 1,
              !.pro_career.divisions_fought =
                  IF SeqContains(@, target) THEN @ ELSE Append(@, target)]

(* the boxer in the target division, with the wear of the cut of cut_lbs   *)
(* or of the gain of gain_lbs                                              *)
EnterDivision(s, target, target_weight_class, moving_down, cut_lbs, gain_lbs) ==
    DivisionCounted(
        DivisionWear(Relocated(s, target, target_weight_class, moving_down),
                     IF moving_down THEN 5 + Max(1, cut_lbs \div 2)
                     ELSE 2 + Max(0, gain_lbs \div 8),
                     IF moving_down THEN 14 + cut_lbs * 2
                     ELSE 4 + Max(0, gain_lbs \div 6)),
        target)

(* change_division past its checks and past ensure_rankings *)
ChangeDivisionTo(s, target, new_weight, seed_rank, jitter) ==
    ensure_lineal_titles(
        EnterDivision(
            SeedRankings(VacateOrganizationTitles(VacateLineal(s)), seed_rank, jitter),
            target, _weight_class_by_name(target),
            DivisionIndex(target) < DivisionIndex(s.boxer.division),
            Max(0, s.boxer.weight_lbs - new_weight),
            Max(0, new_weight - s.boxer.weight_lbs)))

(* change_division past its checks, with the seed rank and the jitter of   *)
(* each organization the random stream delivers                            *)
change_division(s, target_division, seed_rank, jitter) ==
    ChangeDivisionTo(ensure_rankings(s), StripLower(target_division),
                     _weight_class_by_name(StripLower(target_division)).max_lbs,
                     seed_rank, jitter)

(***************************************************************************)
(* pro_career.py: turning pro                                              *)
(***************************************************************************)
(* the checks of turn_pro without the check of is_active *)
turn_pro_error_repeatable(s) ==
    IF s.is_retired THEN "retired boxer cannot turn pro"
    ELSE IF ~pro_ready(s) THEN "pro readiness not reached"
    ELSE ""

turn_pro_error(s) ==
    IF s.pro_career.is_active THEN "already pro"
    ELSE IF s.is_retired THEN "retired boxer cannot turn pro"
    ELSE IF ~pro_ready(s) THEN "pro readiness not reached"
    ELSE ""

(* turn_pro with the boxer weighed in at the lower limit of the division *)
turn_pro_weighed(s, promoter, organization_focus, signing_bonus) ==
    LET s1 == [s EXCEPT !.pro_career =
                 [ProCareer EXCEPT
                    !.is_active = TRUE,
                    !.promoter = promoter,
                    !.organization_focus = organization_focus,
                    !.rankings = [o \in OrgNames |-> NoRank],
                    !.purse_balance = signing_bonus,
                    !.total_earnings = signing_bonus,
                    !.divisions_fought = << s.boxer.division >>,
                    !.last_player_fight_month = s.career_months]]
    IN  [ensure_rankings(s1) EXCEPT
           !.boxer.popularity = @ + 3,
           !.boxer.weight_lbs = _weight_class_by_name(s.boxer.division).min_lbs]

(* turn_pro past its checks, with the promoter, the focus organization and *)
(* the signing bonus the random stream picks                               *)
turn_pro(s, promoter, organization_focus, signing_bonus) ==
    LET s1 == [s EXCEPT !.pro_career =
                 [ProCareer EXCEPT
                    !.is_active = TRUE,
                    !.promoter = promoter,
                    !.organization_focus = organization_focus,
                    !.rankings = [o \in OrgNames |-> NoRank],
                    !.purse_balance = signing_bonus,
                    !.total_earnings = signing_bonus,
                    !.divisions_fought = << s.boxer.division >>,
                    !.last_player_fight_month = s.career_months]]
    IN  [ensure_rankings(s1) EXCEPT !.boxer.popularity = @ + 3]

(***************************************************************************)
(* pro_career.py: opponents                                                *)
(***************************************************************************)
(* Names the generators draw for fighters who hold no title; a drawn name  *)
(* is taken to differ from the names of the division's title holders.      *)
GenericNames == <<"Marcus Reed", "Daniel Stone", "Owen Clarke", "Emilio Vargas">>

TitleHolders(s) ==
    {s.pro_career.lineal_champions[s.boxer.division]}
        \cup {s.pro_career.organization_champions[o][s.boxer.division] : o \in OrgNames}

FreshName(s) ==
    LET free == {i \in 1..Len(GenericNames) : GenericNames[i] \notin TitleHolders(s)}
    IN  GenericNames[CHOOSE i \in free : \A j \in free : i <= j]

(* the entry _build_rankings_entries puts at a rank the boxer is not at;   *)
(* ratings without the gaussian noise                                      *)
RankingEntryAt(s, rank) ==
    LET lineal_champion == s.pro_career.lineal_champions[s.boxer.division]
    IN  IF rank = 1 /\ lineal_champion \notin {NoName, BoxerName}
        THEN [rank |-> 1, name |-> lineal_champion, rating |-> 95,
              is_lineal_champion |-> TRUE]
        ELSE [rank |-> rank, name |-> FreshName(s),
              rating |-> Max(55, Min(98, PyRound(9600 - (rank - 1) * 95, 100))),
              is_lineal_champion |-> FALSE]

(* ranks the random stream selects in _pick_ranked_opponent_entry *)
RankPicks == {1, 3}

(* the entry of the organization's champion, when the boxer is ranked in   *)
(* the top five and another fighter holds the title                        *)
ChampionEntry(player_rank, lineal_champion, org_champion) ==
    IF player_rank <= 5 /\ org_champion \notin {NoName, BoxerName}
    THEN {[rank |-> 1, name |-> org_champion, rating |-> 94,
           is_lineal_champion |-> (lineal_champion = org_champion)]}
    ELSE {}

(* the ranks a boxer of the top three is matched at for the lineal title *)
LinealPicks(player_rank, lineal_champion) ==
    IF player_rank <= 3
    THEN IF lineal_champion \notin {NoName, BoxerName} THEN {1}
         ELSE IF lineal_champion = NoName
         THEN (IF player_rank = 1 THEN {2, 3} ELSE {1})
         ELSE {}
    ELSE {}

(* the ranks of the window around the boxer's rank *)
WindowPicks(player_rank, ranking_slots, spread) ==
    (Max(1, player_rank - spread)..Min(ranking_slots, player_rank + spread)) \cap RankPicks

(* a selected rank, moved off the boxer's own rank *)
ResolveRank(rank, player_rank, ranking_slots) ==
    IF rank # player_rank THEN rank
    ELSE IF rank < ranking_slots THEN rank + 1 ELSE rank - 1

PickedEntries(s, player_rank, ranking_slots, selected) ==
    {RankingEntryAt(s, ResolveRank(rank, player_rank, ranking_slots)) :
        rank \in {r \in selected :
                     ResolveRank(r, player_rank, ranking_slots) \in 1..ranking_slots}}

PickFor(s, player_rank, ranking_slots, lineal_champion, org_champion) ==
    IF player_rank = NoRank THEN {}
    ELSE ChampionEntry(player_rank, lineal_champion, org_champion)
           \cup PickedEntries(s, player_rank, ranking_slots,
                    LinealPicks(player_rank, lineal_champion)
                      \cup WindowPicks(player_rank, ranking_slots,
                                       IF player_rank > 10 THEN 6 ELSE 4))

(* the entries _pick_ranked_opponent_entry can return; {} stands for None  *)
_pick_ranked_opponent_entry(s) ==
    PickFor(s, s.pro_career.rankings[s.pro_career.organization_focus],
            _ranking_slots(s.pro_career.organization_focus),
            current_division_lineal_champion(s),
            organization_division_champion(s, s.pro_career.organization_focus,
                                           s.boxer.division))

(* the rank dicts _build_opponent_org_ranks can return: the focus rank in  *)
(* the focus organization; elsewhere None or a rank near the focus rank    *)
_build_opponent_org_ranks(s, focus_org, focus_rank) ==
    IF focus_rank = NoRank
    THEN {[o \in OrgNames |-> NoRank]}
    ELSE {[o \in OrgNames |->
              IF o = focus_org \/ o \in present
              THEN Max(1, Min(_ranking_slots(o), focus_rank)) ELSE NoRank] :
            present \in SUBSET (OrgNames \ {focus_org})}

generate_pro_opponent_error(s) ==
    IF ~s.pro_career.is_active THEN "turn pro before scheduling pro fights" ELSE ""

(* the organizations of the division whose title the named fighter holds *)
TitlesHeldBy(s, name) ==
    {i \in OrgIndex :
        organization_division_champion(s, _organization_names[i], s.boxer.division) = name}

(* the ranks of an opponent: the holder of an organization's title who has *)
(* no rank there is ranked first                                           *)
HolderRanks(ranks, is_lineal, first) ==
    IF ~is_lineal /\ first # 0 /\ ranks[_organization_names[first]] = NoRank
    THEN [ranks EXCEPT ![_organization_names[first]] = 1]
    ELSE ranks

OpponentOf(focus_org, name, rating, organization_ranks, flagged) ==
    [name |-> name, rating |-> rating,
     ranking_position |-> organization_ranks[focus_org],
     organization_ranks |-> organization_ranks,
     is_lineal_champion |-> flagged]

HolderOpponent(focus_org, name, rating, ranks, is_lineal, first) ==
    OpponentOf(focus_org, name, rating, HolderRanks(ranks, is_lineal, first),
               is_lineal \/ first # 0)

(* an opponent as the engines read it; the title flag is also raised for   *)
(* the holder of an organization title of the division                     *)
MakeOpponent(s, name, rating, ranks, is_lineal) ==
    HolderOpponent(s.pro_career.organization_focus, name, rating, ranks, is_lineal,
                   FirstOf(TitlesHeldBy(s, name), 0))

UnrankedOpponents(s, tier, focus_org) ==
    {MakeOpponent(s, FreshName(s), tier.opponent_rating_min, ranks, FALSE) :
        ranks \in _build_opponent_org_ranks(s, focus_org, NoRank)}

EntryRating(tier, e) ==
    IF e.is_lineal_champion
    THEN Max(Max(tier.opponent_rating_min, Min(98, e.rating)), 93)
    ELSE Max(tier.opponent_rating_min, Min(98, e.rating))

RankedOpponents(s, tier, focus_org, entries) ==
    UNION {{MakeOpponent(s, e.name, EntryRating(tier, e), ranks, e.is_lineal_champion) :
               ranks \in _build_opponent_org_ranks(s, focus_org, e.rank)} :
           e \in entries}

OpponentsFor(s, tier, focus_org, entries) ==
    IF entries = {} THEN UnrankedOpponents(s, tier, focus_org)
    ELSE RankedOpponents(s, tier, focus_org, entries)

(* the opponents generate_pro_opponent can return for a state it accepts   *)
generate_pro_opponent(s) ==
    OpponentsFor(s, pro_tier(s), s.pro_career.organization_focus,
                 _pick_ranked_opponent_entry(s))

(* an organization that sanctions the fight in any case *)
CertainBody(s, opponent, o, policy) ==
    \/ organization_division_champion(s, o, s.boxer.division) \in {BoxerName, opponent.name}
    \/ (policy.include_focus_org_always /\ o = s.pro_career.organization_focus)

(* an organization the random stream can add to the fight: a gate whose   *)
(* ranks fit and whose probability, in percent, a draw of random() can    *)
(* fall below                                                              *)
PossibleRanks(player_rank, opponent_rank, policy) ==
    IF player_rank # NoRank /\ opponent_rank # NoRank
    THEN \/ (/\ player_rank <= policy.cross_body_rank_window
             /\ opponent_rank <= policy.cross_body_rank_window
             /\ policy.cross_body_top_window_prob > 0)
         \/ (/\ (player_rank <= policy.cross_body_elite_cutoff
                    \/ opponent_rank <= policy.cross_body_elite_cutoff)
             /\ policy.cross_body_elite_prob > 0)
         \/ (/\ Abs(player_rank - opponent_rank) <= policy.cross_body_rank_gap_max
             /\ policy.cross_body_rank_gap_prob > 0)
    ELSE /\ Min(IF player_rank # NoRank THEN player_rank ELSE 99,
                IF opponent_rank # NoRank THEN opponent_rank ELSE 99) <= 10
         /\ policy.cross_body_single_top10_prob > 0

PossibleBody(s, opponent, o, policy) ==
    PossibleRanks(s.pro_career.rankings[o], opponent.organization_ranks[o], policy)

BodiesFrom(focus_org, certain, possible) ==
    {IF certain \cup extra = {} THEN {focus_org} ELSE certain \cup extra :
        extra \in SUBSET (possible \ certain)}

(* the lists determine_sanctioning_bodies can return, as sets of           *)
(* organizations in canonical order                                        *)
SanctioningBodiesUnder(policy, s, opponent) ==
    IF ~s.pro_career.is_active THEN {{}}
    ELSE BodiesFrom(s.pro_career.organization_focus,
                    {o \in OrgNames : CertainBody(s, opponent, o, policy)},
                    {o \in OrgNames : PossibleBody(s, opponent, o, policy)})

(* with the policy _sanctioning_policy() returns *)
determine_sanctioning_bodies(s, opponent) ==
    SanctioningBodiesUnder(RulesSanctioningPolicy, s, opponent)

(* the parts of the purse *)
RankBonus(current_rank, economy) ==
    IF current_rank # NoRank
    THEN Max(0, (41 - current_rank) * economy.ranking_bonus_per_step) ELSE 0

Gross(s, opponent, tier, economy) ==
    tier.purse.min
      + s.boxer.popularity * economy.popularity_bonus_per_point
      + opponent.rating * economy.opponent_rating_bonus
      + RankBonus(s.pro_career.rankings[s.pro_career.organization_focus], economy)
      + (IF opponent.is_lineal_champion THEN 350000 ELSE 0)

Share(gross, pct) == PyRound(gross * pct, 100)

RankedInterest(player_rank, opponent_rank, threshold) ==
    \/ (player_rank # NoRank /\ player_rank <= threshold)
    \/ (opponent_rank # NoRank /\ opponent_rank <= threshold)

(* the sanction fee of one organization *)
SanctionFee(s, opponent, sanctioning_bodies, gross, org_cfg) ==
    IF /\ org_cfg.name \in sanctioning_bodies
       /\ \/ organization_division_champion(s, org_cfg.name, s.boxer.division)
                \in {BoxerName, opponent.name}
          \/ RankedInterest(s.pro_career.rankings[org_cfg.name],
                            opponent.organization_ranks[org_cfg.name],
                            org_cfg.sanction_fee_rank_threshold)
    THEN Share(gross, org_cfg.sanction_fee_pct) ELSE 0

RECURSIVE SanctionFees(_, _, _, _, _)
SanctionFees(s, opponent, sanctioning_bodies, gross, i) ==
    IF i = 0 THEN 0
    ELSE SanctionFee(s, opponent, sanctioning_bodies, gross, RulesOrganizations[i])
           + SanctionFees(s, opponent, sanctioning_bodies, gross, i - 1)

Net(gross, economy, sanction_fee) ==
    gross - Share(gross, economy.manager_cut_pct) - Share(gross, economy.trainer_cut_pct)
          - Share(gross, economy.camp_cost_pct) - Share(gross, economy.commission_pct)
          - sanction_fee

PurseOf(s, opponent, sanctioning_bodies, gross) ==
    [keys |-> {"gross", "net", "sanctioning_bodies"},
     gross |-> gross,
     net |-> Max(0, Net(gross, RulesEconomy,
                        SanctionFees(s, opponent, sanctioning_bodies, gross,
                                     Len(RulesOrganizations)))),
     sanctioning_bodies |-> sanctioning_bodies]

(* a purse dict: the keys it has, and the values of the keys the engine    *)
(* reads                                                                   *)
offer_purse(s, opponent, sanctioning_bodies) ==
    PurseOf(s, opponent, sanctioning_bodies, Gross(s, opponent, pro_tier(s), RulesEconomy))

(***************************************************************************)
(* pro_career.py: applying a pro fight                                     *)
(***************************************************************************)
(* the rank a result moves the boxer to; an unranked boxer enters on a win *)
MovedRank(current_rank, ranking_cfg, ranking_slots, result) ==
    IF result.winner = BoxerName
    THEN IF current_rank = NoRank THEN ranking_cfg.entry_on_win
         ELSE Max(1, current_rank - ranking_cfg.win_step)
    ELSE IF current_rank = NoRank THEN NoRank
    ELSE IF result.winner = DrawName
    THEN Min(ranking_slots, current_rank + ranking_cfg.draw_penalty)
    ELSE Min(ranking_slots, current_rank + ranking_cfg.loss_penalty)

(* the same move without the bounds 1 and ranking_slots *)
UnboundedRank(current_rank, ranking_cfg, result) ==
    IF result.winner = BoxerName
    THEN IF current_rank = NoRank THEN ranking_cfg.entry_on_win
         ELSE current_rank - ranking_cfg.win_step
    ELSE IF current_rank = NoRank THEN NoRank
    ELSE IF result.winner = DrawName THEN current_rank + ranking_cfg.draw_penalty
    ELSE current_rank + ranking_cfg.loss_penalty

BoundedRank(moved, ranking_slots) ==
    IF moved = NoRank THEN NoRank ELSE Max(1, Min(ranking_slots, moved))

RankUpdate(s0, result, organization_name) ==
    [s0 EXCEPT !.pro_career.rankings[organization_name] =
                   BoundedRank(MovedRank(@, pro_tier(s0).ranking,
                                         _ranking_slots(organization_name), result),
                               _ranking_slots(organization_name))]

_update_organization_ranking_unbounded(s, result, organization_name) ==
    [ensure_rankings(s) EXCEPT
       !.pro_career.rankings[organization_name] =
           UnboundedRank(@, pro_tier(s).ranking, result)]

_update_organization_ranking(s, result, organization_name) ==
    RankUpdate(ensure_rankings(s), result, organization_name)

_vacancy_fight_is_valid(player_rank, opponent_rank) ==
    IF player_rank = NoRank \/ opponent_rank = NoRank THEN FALSE
    ELSE {player_rank, opponent_rank} \in {{1, 2}, {1, 3}}

(* the ledger after the opponent's lineal flag is taken over *)
LinealSynced(s0, opponent) ==
    IF opponent.is_lineal_champion
         /\ s0.pro_career.lineal_champions[s0.boxer.division] # opponent.name
    THEN [s0 EXCEPT !.pro_career.lineal_champions[s0.boxer.division] = opponent.name]
    ELSE s0

Crown(s1, name) ==
    [s1 EXCEPT !.pro_career.lineal_champions[s1.boxer.division] = name,
               !.pro_career.lineal_defenses[s1.boxer.division] = 0]

Defend(s1) ==
    [s1 EXCEPT !.pro_career.lineal_defenses[s1.boxer.division] = @ + 1]

LinealOutcome(s1, champion, opponent, result, player_rank_before) ==
    IF champion = NoName
    THEN IF ~_vacancy_fight_is_valid(player_rank_before, opponent.ranking_position)
         THEN [state |-> s1, note |-> ""]
         ELSE IF result.winner = BoxerName
         THEN [state |-> Crown(s1, BoxerName), note |-> "captured vacant lineal title"]
         ELSE IF result.winner = opponent.name
         THEN [state |-> Crown(s1, opponent.name), note |-> "opponent won vacant lineal title"]
         ELSE [state |-> s1, note |-> "vacant lineal title remains vacant"]
    ELSE IF champion = BoxerName
    THEN IF result.winner = BoxerName
         THEN [state |-> Defend(s1), note |-> "lineal title defense"]
         ELSE IF result.winner = opponent.name
         THEN [state |-> Crown(s1, opponent.name), note |-> "lost lineal title"]
         ELSE [state |-> s1, note |-> "retained lineal title after draw"]
    ELSE IF champion = opponent.name
    THEN IF result.winner = BoxerName
         THEN [state |-> Crown(s1, BoxerName), note |-> "captured lineal title"]
         ELSE IF result.winner = opponent.name
         THEN [state |-> Defend(s1), note |-> "opponent retained lineal title"]
         ELSE [state |-> s1, note |-> "opponent retained lineal title after draw"]
    ELSE [state |-> s1, note |-> ""]

LinealAfter(s1, opponent, result, player_rank_before) ==
    LinealOutcome(s1, s1.pro_career.lineal_champions[s1.boxer.division], opponent, result,
                  player_rank_before)

(* the state _update_lineal_after_fight leaves and the note it returns *)
_update_lineal_after_fight(s, opponent, result, player_rank_before) ==
    LinealAfter(LinealSynced(ensure_lineal_titles(s), opponent), opponent, result,
                player_rank_before)

(* the list of the purse dict taken as it is, the focus organization not   *)
(* added                                                                   *)
WithFocus_aslisted(ordered, focus_org) == ordered

(* sanctioning_bodies of a purse dict: the canonical organizations of the  *)
(* list in canonical order, then the focus organization if it is missing   *)
WithFocus(ordered, focus_org) ==
    IF SeqContains(ordered, focus_org) THEN ordered ELSE Append(ordered, focus_org)

_normalized_sanctioning_bodies(purse_breakdown, focus_org) ==
    IF "sanctioning_bodies" \notin purse_breakdown.keys THEN << focus_org >>
    ELSE WithFocus(SelectSeq(_organization_names,
                             LAMBDA o : o \in purse_breakdown.sanctioning_bodies),
                   focus_org)

(* one organization's step of _update_organization_titles_after_fight *)
TitleOutcome(acc, org_name, division, champion, opponent, result) ==
    IF champion \notin {BoxerName, opponent.name} THEN acc
    ELSE IF champion = BoxerName
    THEN IF result.winner = BoxerName
         THEN [state |-> [acc.state EXCEPT
                            !.pro_career.organization_defenses[org_name][division] = @ + 1,
                            !.pro_career.rankings[org_name] = 1],
               notes |-> Append(acc.notes, <<org_name, "title defense successful">>)]
         ELSE IF result.winner = opponent.name
         THEN [state |-> [acc.state EXCEPT
                            !.pro_career.organization_champions[org_name][division] =
                                opponent.name,
                            !.pro_career.organization_defenses[org_name][division] = 0],
               notes |-> Append(acc.notes, <<org_name, "lost title">>)]
         ELSE [acc EXCEPT !.notes = Append(@, <<org_name, "retained title in a draw">>)]
    ELSE IF result.winner = BoxerName
         THEN [state |-> [acc.state EXCEPT
                            !.pro_career.organization_champions[org_name][division] = BoxerName,
                            !.pro_career.organization_defenses[org_name][division] = 0,
                            !.pro_career.rankings[org_name] = 1],
               notes |-> Append(acc.notes, <<org_name, "captured title">>)]
         ELSE IF result.winner = opponent.name
         THEN [state |-> [acc.state EXCEPT
                            !.pro_career.organization_defenses[org_name][division] = @ + 1],
               notes |-> Append(acc.notes, <<org_name, "opponent retained title">>)]
         ELSE [acc EXCEPT
                 !.notes = Append(@, <<org_name, "opponent retained title in a draw">>)]

TitleStep(acc, org_name, opponent, result) ==
    TitleOutcome(acc, org_name, acc.state.boxer.division,
                 organization_division_champion(acc.state, org_name,
                                                acc.state.boxer.division),
                 opponent, result)

RECURSIVE TitleSteps(_, _, _, _)
TitleSteps(acc, bodies, opponent, result) ==
    IF bodies = << >> THEN acc
    ELSE TitleSteps(TitleStep(acc, Head(bodies), opponent, result), Tail(bodies), opponent, result)

_update_organization_titles_after_fight(s, opponent, result, sanctioned_bodies) ==
    TitleSteps([state |-> ensure_organization_titles(s), notes |-> << >>],
               sanctioned_bodies, opponent, result)

RECURSIVE RankSteps(_, _, _)
RankSteps(s, bodies, result) ==
    IF bodies = << >> THEN s
    ELSE RankSteps(_update_organization_ranking(s, result, Head(bodies)), Tail(bodies), result)

(* apply_pro_fight_result on a pro career: the error it ends with ("" when *)
(* it returns) and the state it leaves.  The purse dict is indexed with    *)
(* ["net"] and ["gross"] after the record and the experience are written.  *)
apply_pro_fight_result_error(s, purse_breakdown) ==
    IF ~s.pro_career.is_active THEN "turn pro before applying pro results"
    ELSE IF "net" \notin purse_breakdown.keys THEN "KeyError: net"
    ELSE IF "gross" \notin purse_breakdown.keys THEN "KeyError: gross"
    ELSE ""

(* the record and the popularity after the result *)
ProOutcome(s0, popularity_cfg, result) ==
    IF result.winner = BoxerName
    THEN [s0 EXCEPT !.pro_career.record.wins = @ + 1,
                    !.pro_career.record.kos =
                        IF result.method \in {"KO", "TKO"} THEN @ + 1 ELSE @,
                    !.boxer.popularity = @ + popularity_cfg.win]
    ELSE IF result.winner = DrawName
    THEN [s0 EXCEPT !.pro_career.record.draws = @ + 1,
                    !.boxer.popularity = @ + popularity_cfg.draw]
    ELSE [s0 EXCEPT !.pro_career.record.losses = @ + 1,
                    !.boxer.popularity = Max(1, @ + popularity_cfg.loss)]

(* the fatigue and the injury risk after the fight *)
ProWearOf(fatigue_gain, injury_gain) ==
    [injury_gain.state EXCEPT
       !.boxer.fatigue = Min(12, @ + fatigue_gain.value),
       !.boxer.injury_risk = Min(100, @ + injury_gain.value)]

ProWearFrom(fatigue_gain, impact) ==
    ProWearOf(fatigue_gain,
              adjusted_injury_risk_gain(fatigue_gain.state, impact.injury_risk_gain))

ProWear(s4, impact) ==
    ProWearFrom(adjusted_fatigue_gain(s4, impact.fatigue_gain), impact)

(* the rank moved in every organization, sanctioning or not *)
ProRanked_everywhere(s5, sanctioned_bodies, result) ==
    [RankSteps(s5, _organization_names, result) EXCEPT
       !.pro_career.last_player_fight_month = s5.career_months]

(* the rankings of the sanctioning organizations and the month of the fight *)
ProRanked(s5, sanctioned_bodies, result) ==
    [RankSteps(s5, sanctioned_bodies, result) EXCEPT
       !.pro_career.last_player_fight_month = s5.career_months]

(* the history entry of the fight *)
ProLogged(s6, lineal, titles, opponent, result, purse_breakdown, sanctioned_bodies) ==
    [titles.state EXCEPT !.history = Append(@,
        [opponent_name |-> opponent.name, opponent_rating |-> opponent.rating,
         result |-> result, stage |-> "pro", purse |-> purse_breakdown.net,
         notes |-> [lineal |-> lineal.note, bodies |-> sanctioned_bodies,
                    ranks |-> [i \in 1..Len(sanctioned_bodies) |->
                                  <<sanctioned_bodies[i],
                                    s6.pro_career.rankings[sanctioned_bodies[i]]>>],
                    titles |-> titles.notes]])]

ProTitled(s6, lineal, opponent, result, purse_breakdown, sanctioned_bodies) ==
    ProLogged(s6, lineal,
              _update_organization_titles_after_fight(lineal.state, opponent, result,
                                                      sanctioned_bodies),
              opponent, result, purse_breakdown, sanctioned_bodies)

ProSettled(s6, opponent, result, purse_breakdown, sanctioned_bodies, player_rank_before) ==
    ProTitled(s6, _update_lineal_after_fight(s6, opponent, result, player_rank_before),
              opponent, result, purse_breakdown, sanctioned_bodies)

(* the purse paid the wrong way round: the gross into the balance and the  *)
(* net into the earnings                                                   *)
ProPaid_swapped(s2, tier, opponent, result, purse_breakdown, sanctioned_bodies, player_rank_before) ==
    IF "net" \notin purse_breakdown.keys THEN s2
    ELSE IF "gross" \notin purse_breakdown.keys
    THEN [s2 EXCEPT !.pro_career.purse_balance = @ + purse_breakdown.net]
    ELSE ProSettled(
             ProRanked(
                 ProWear([s2 EXCEPT
                            !.pro_career.purse_balance = @ + purse_breakdown.gross,
                            !.pro_career.total_earnings = @ + purse_breakdown.net],
                         calculate_post_fight_impact("pro", BoxerName, result, tier.rounds)),
                 sanctioned_bodies, result),
             opponent, result, purse_breakdown, sanctioned_bodies, player_rank_before)

(* the purse paid into the balance and the earnings, then the rest of the  *)
(* fight; a purse dict without "net" or "gross" ends the call where it is  *)
(* indexed                                                                 *)
ProPaid(s2, tier, opponent, result, purse_breakdown, sanctioned_bodies, player_rank_before) ==
    IF "net" \notin purse_breakdown.keys THEN s2
    ELSE IF "gross" \notin purse_breakdown.keys
    THEN [s2 EXCEPT !.pro_career.purse_balance = @ + purse_breakdown.net]
    ELSE ProSettled(
             ProRanked(
                 ProWear([s2 EXCEPT
                            !.pro_career.purse_balance = @ + purse_breakdown.net,
                            !.pro_career.total_earnings = @ + purse_breakdown.gross],
                         calculate_post_fight_impact("pro", BoxerName, result, tier.rounds)),
                 sanctioned_bodies, result),
             opponent, result, purse_breakdown, sanctioned_bodies, player_rank_before)

ProFight(s0, tier, opponent, result, purse_breakdown) ==
    ProPaid(add_experience_points(
                ProOutcome(s0, tier.popularity, result),
                fight_experience_gain("pro", BoxerName, opponent.rating, result)),
            tier, opponent, result, purse_breakdown,
            _normalized_sanctioning_bodies(purse_breakdown, s0.pro_career.organization_focus),
            s0.pro_career.rankings[s0.pro_career.organization_focus])

ProFightOn(s0, opponent, result, purse_breakdown) ==
    ProFight(s0, pro_tier(s0), opponent, result, purse_breakdown)

apply_pro_fight_result(s, opponent, result, purse_breakdown) ==
    ProFightOn(ensure_rankings(s), opponent, result, purse_breakdown)

(***************************************************************************)
(* pro_career.py: the rankings table of an organization                    *)
(***************************************************************************)
(* the organization argument stripped and in upper case *)
NormalizedOrganization(organization) ==
    IF organization = " wbc " THEN "WBC" ELSE organization

(* A row of the table by its rank, its name and its flags; the rating, the *)
(* record, the age and the stance of a row are left out.                   *)
PlayerEntry(rank, lineal_champion) ==
    [rank |-> rank, name |-> BoxerName,
     is_lineal_champion |-> (lineal_champion = BoxerName), is_player |-> TRUE]

OtherEntry(entry) ==
    [rank |-> entry.rank, name |-> entry.name,
     is_lineal_champion |-> entry.is_lineal_champion, is_player |-> FALSE]

RankedEntry(s0, rank, player_rank) ==
    IF player_rank # NoRank /\ rank = player_rank
    THEN PlayerEntry(rank, s0.pro_career.lineal_champions[s0.boxer.division])
    ELSE OtherEntry(RankingEntryAt(s0, rank))

_build_rankings_entries(s, organization_name) ==
    [rank \in 1.._ranking_slots(organization_name) |->
        RankedEntry(ensure_rankings(s), rank,
                    ensure_rankings(s).pro_career.rankings[organization_name])]

rankings_snapshot_error(s, organization, top_n) ==
    IF ~s.pro_career.is_active THEN "rankings are available after turning pro"
    ELSE IF top_n < 1 THEN "top_n must be >= 1"
    ELSE IF NormalizedOrganization(organization) \notin OrgNames
    THEN "unknown organization"
    ELSE ""

(* the rows shown: the first visible_count entries, then the player's own  *)
(* entry when it is further down, or a row of rank 0 for an unranked       *)
(* player                                                                  *)
VisibleEntries(s0, entries, visible_count, player_rank) ==
    IF player_rank = NoRank
    THEN Append(SubSeq(entries, 1, visible_count),
                PlayerEntry(0, current_division_lineal_champion(s0)))
    ELSE IF player_rank > visible_count
    THEN Append(SubSeq(entries, 1, visible_count), entries[player_rank])
    ELSE SubSeq(entries, 1, visible_count)

SnapshotRows(s0, organization_name, top_n) ==
    VisibleEntries(s0, _build_rankings_entries(s0, organization_name),
                   Min(top_n, _ranking_slots(organization_name)),
                   s0.pro_career.rankings[organization_name])

(* the rows rankings_snapshot returns; the state it leaves is the one      *)
(* ensure_rankings leaves                                                  *)
rankings_snapshot(s, organization, top_n) ==
    SnapshotRows(ensure_rankings(s), NormalizedOrganization(organization), top_n)

(***************************************************************************)
(* world_sim.py                                                            *)
(***************************************************************************)
(* _seed_name(state, label): a name of the world pool fixed by the month   *)
(* and the label "<org>:<division>:vacA", ":vacB" or ":ch"                 *)
_seed_name(kind) ==
    IF kind = "vacA" THEN "Luis Santos"
    ELSE IF kind = "vacB" THEN "Kenji Mori"
    ELSE "Marco Grant"

(* What the random stream decides for one title: which challenger wins a   *)
(* vacant one ("vacA", "vacB"), else no title fight ("none"), an upset     *)
(* ("upset") or a defense ("defense").                                     *)
TitleDrawFits(s, org_name, division, draw) ==
    LET champion == organization_division_champion(s, org_name, division)
    IN  IF champion = NoName THEN draw \in {"vacA", "vacB"}
        ELSE IF champion = BoxerName /\ division = s.boxer.division THEN draw = "none"
        ELSE /\ draw \in {"none", "upset", "defense"}
             /\ draw = "defense" =>
                    s.pro_career.organization_defenses[org_name][division] < MaxDefenses

(* one organization's step with the player's own title contested like any  *)
(* other: the challenger of the month takes it                             *)
WorldTitleStep_contested(acc, org_name, division, draw) ==
    LET s == acc.state
        champion == organization_division_champion(s, org_name, division)
    IN  IF champion = NoName
        THEN [state |-> [s EXCEPT
                           !.pro_career.organization_champions[org_name][division] = _seed_name(draw),
                           !.pro_career.organization_defenses[org_name][division] = 0],
              events |-> Append(acc.events, <<org_name, "won the vacant title", division>>)]
        ELSE IF draw = "upset" \/ champion = BoxerName
        THEN [state |-> [s EXCEPT
                           !.pro_career.organization_champions[org_name][division] = _seed_name("ch"),
                           !.pro_career.organization_defenses[org_name][division] = 0],
              events |-> Append(acc.events, <<org_name, "dethroned", division>>)]
        ELSE IF draw = "defense"
        THEN [state |-> [s EXCEPT
                           !.pro_career.organization_defenses[org_name][division] = @ + 1],
              events |-> IF RulesWorldSimulation.title_defense_news_probability > 0
                         THEN Append(acc.events, <<org_name, "defended title", division>>)
                         ELSE acc.events]
        ELSE acc

(* one organization's step of _simulate_titles_for_division *)
WorldTitleStep(acc, org_name, division, draw) ==
    LET s == acc.state
        champion == organization_division_champion(s, org_name, division)
    IN  IF champion = NoName
        THEN [state |-> [s EXCEPT
                           !.pro_career.organization_champions[org_name][division] = _seed_name(draw),
                           !.pro_career.organization_defenses[org_name][division] = 0],
              events |-> Append(acc.events, <<org_name, "won the vacant title", division>>)]
        ELSE IF champion = BoxerName /\ division = s.boxer.division THEN acc
        ELSE IF draw = "upset"
        THEN [state |-> [s EXCEPT
                           !.pro_career.organization_champions[org_name][division] = _seed_name("ch"),
                           !.pro_career.organization_defenses[org_name][division] = 0],
              events |-> Append(acc.events, <<org_name, "dethroned", division>>)]
        ELSE IF draw = "defense"
        THEN [state |-> [s EXCEPT
                           !.pro_career.organization_defenses[org_name][division] = @ + 1],
              events |-> IF RulesWorldSimulation.title_defense_news_probability > 0
                         THEN Append(acc.events, <<org_name, "defended title", division>>)
                         ELSE acc.events]
        ELSE acc

RECURSIVE _simulate_titles_for_division(_, _, _, _)
_simulate_titles_for_division(acc, division, orgs, draws) ==
    IF orgs = << >> THEN acc
    ELSE _simulate_titles_for_division(
             WorldTitleStep(acc, Head(orgs), division, draws[division][Head(orgs)]),
             division, Tail(orgs), draws)

RECURSIVE SimulateDivisions(_, _, _, _)
SimulateDivisions(acc, divisions, draws, policy) ==
    IF divisions = << >> THEN acc
    ELSE LET next == _simulate_titles_for_division(acc, Head(divisions),
                                                   _organization_names, draws)
         IN  IF Len(next.events) >= policy.max_news_items_per_month THEN next
             ELSE SimulateDivisions(next, Tail(divisions), draws, policy)

(* the drift the random stream decides for one organization *)
DriftDraws(s) ==
    LET policy == RulesWorldSimulation
        months_since_fight == Max(0, s.career_months - s.pro_career.last_player_fight_month)
        ups == {0} \cup (IF months_since_fight >= 2
                         THEN policy.rank_drift_up_step_min
                                ..Max(policy.rank_drift_up_step_min, policy.rank_drift_up_step_max)
                         ELSE {})
    IN  {[up |-> u, down |-> d] : u \in ups, d \in {0, 1}}

DriftStep(acc, org_name, drift) ==
    LET s == acc.state
        champion == organization_division_champion(s, org_name, s.boxer.division)
        old_rank == s.pro_career.rankings[org_name]
        new_rank == clamp_int(old_rank + drift.up - drift.down, 1, _ranking_slots(org_name))
    IN  IF champion = BoxerName
        THEN [acc EXCEPT !.state.pro_career.rankings[org_name] = 1]
        ELSE IF old_rank = NoRank THEN acc
        ELSE IF new_rank # old_rank
        THEN [state |-> [s EXCEPT !.pro_career.rankings[org_name] = new_rank],
              events |-> Append(acc.events, <<org_name, "ranking shifted", s.boxer.division>>)]
        ELSE acc

RECURSIVE DriftSteps(_, _, _)
DriftSteps(acc, orgs, drifts) ==
    IF orgs = << >> THEN acc
    ELSE DriftSteps(DriftStep(acc, Head(orgs), drifts[Head(orgs)]), Tail(orgs), drifts)

(* the drift applied in every month, the month of the player's fight       *)
(* included                                                                *)
_simulate_player_rank_drift_monthly(acc, drifts) ==
    DriftSteps(acc, _organization_names, drifts)

_simulate_player_rank_drift(acc, drifts) ==
    LET s == acc.state
        months_since_fight == Max(0, s.career_months - s.pro_career.last_player_fight_month)
    IN  IF months_since_fight <= 0 THEN acc
        ELSE DriftSteps(acc, _organization_names, drifts)

FirstN(seq, n) == IF Len(seq) <= n THEN seq ELSE SubSeq(seq, 1, n)

(* the divisions of a simulated month *)
SimulatedDivisions(s0, policy) ==
    IF policy.simulate_all_divisions
    THEN _weight_class_names ELSE << s0.boxer.division >>

(* the news of the month, cut to the monthly limit and to the last twelve *)
WorldNews(drifted, policy) ==
    [drifted.state EXCEPT
       !.pro_career.last_world_news =
           LastWindow(FirstN(drifted.events, policy.max_news_items_per_month), 12)]

WorldMonth(s0, draws, drifts, policy) ==
    WorldNews(_simulate_player_rank_drift(
                  SimulateDivisions([state |-> s0, events |-> << >>],
                                    SimulatedDivisions(s0, policy), draws, policy),
                  drifts),
              policy)

(* simulate_world_month under the policy _world_policy loads *)
WorldMonthUnder(policy, s, draws, drifts) ==
    IF ~s.pro_career.is_active THEN s
    ELSE WorldMonth(ensure_organization_titles(ensure_rankings(s)), draws, drifts, policy)

simulate_world_month(s, draws, drifts) ==
    WorldMonthUnder(RulesWorldSimulation, s, draws, drifts)

(***************************************************************************)
(* models.py: to_dict and from_dict.  A payload is the record of the keys  *)
(* to_dict writes; from_dict reads every key back through its conversion:  *)
(* a floor, a clamp, a strip, a window or a default.                       *)
(***************************************************************************)
(* str(text).strip() on the texts of the model *)
StripText(text) == IF text = " Super_Lightweight " THEN "Super_Lightweight" ELSE text

(* a champion read from a payload: None stays None, a blank name is None *)
ChampionFromPayload(champion) ==
    IF champion \in {NoName, AbsentName} THEN champion
    ELSE IF StripText(champion) = "" THEN NoName
    ELSE StripText(champion)

(* max(0, int(count)) for the keys a dict holds *)
CountFromPayload(count, absent) == IF count = absent THEN absent ELSE Max(0, count)

RECURSIVE DivisionsFromPayload(_, _)
DivisionsFromPayload(raw, kept) ==
    IF raw = << >> THEN kept
    ELSE LET normalized == StripText(Head(raw))
         IN  DivisionsFromPayload(
                 Tail(raw),
                 IF normalized # "" /\ ~SeqContains(kept, normalized)
                 THEN Append(kept, normalized) ELSE kept)

CareerRecord_to_dict(record) ==
    [wins |-> record.wins, losses |-> record.losses, draws |-> record.draws,
     kos |-> record.kos]

CareerRecord_from_dict(payload) ==
    [wins |-> payload.wins, losses |-> payload.losses, draws |-> payload.draws,
     kos |-> payload.kos]

(* AgingProfile.from_dict; severity and growth factor in percent *)
AgingProfile_from_dict(payload) ==
    LET peak_age == Max(23, Min(35, payload.peak_age))
    IN  [peak_age |-> peak_age,
         decline_onset_age |-> Max(peak_age, Min(40, payload.decline_onset_age)),
         decline_severity |-> Max(60, Min(160, payload.decline_severity)),
         iq_growth_factor |-> Max(60, Min(160, payload.iq_growth_factor))]

Boxer_to_dict(boxer) ==
    [age |-> boxer.age, weight_lbs |-> boxer.weight_lbs, stats |-> boxer.stats,
     division |-> boxer.division, record |-> CareerRecord_to_dict(boxer.record),
     amateur_points |-> boxer.amateur_points, popularity |-> boxer.popularity,
     fatigue |-> boxer.fatigue, experience_points |-> boxer.experience_points,
     injury_risk |-> boxer.injury_risk, aging_profile |-> boxer.aging_profile]

Boxer_from_dict(payload) ==
    [age |-> payload.age, weight_lbs |-> payload.weight_lbs,
     stats |-> [n \in StatNames |-> payload.stats[n]],
     division |-> payload.division,
     record |-> CareerRecord_from_dict(payload.record),
     amateur_points |-> payload.amateur_points, popularity |-> payload.popularity,
     fatigue |-> payload.fatigue,
     experience_points |-> Max(0, payload.experience_points),
     injury_risk |-> Max(0, Min(100, payload.injury_risk)),
     aging_profile |-> AgingProfile_from_dict(payload.aging_profile)]

FightHistoryEntry_to_dict(entry) ==
    [opponent_name |-> entry.opponent_name, opponent_rating |-> entry.opponent_rating,
     result |-> entry.result, stage |-> entry.stage, purse |-> entry.purse,
     notes |-> entry.notes]

FightHistoryEntry_from_dict(payload) ==
    [opponent_name |-> payload.opponent_name, opponent_rating |-> payload.opponent_rating,
     result |-> [winner |-> payload.result.winner, method |-> payload.result.method,
                 rounds_completed |-> payload.result.rounds_completed],
     stage |-> payload.stage, purse |-> payload.purse, notes |-> payload.notes]

ProCareer_to_dict(pro) ==
    [is_active |-> pro.is_active, promoter |-> pro.promoter,
     organization_focus |-> pro.organization_focus, rankings |-> pro.rankings,
     organization_champions |-> pro.organization_champions,
     organization_defenses |-> pro.organization_defenses,
     record |-> CareerRecord_to_dict(pro.record),
     purse_balance |-> pro.purse_balance, total_earnings |-> pro.total_earnings,
     staff_levels |-> pro.staff_levels, lineal_champions |-> pro.lineal_champions,
     lineal_defenses |-> pro.lineal_defenses, division_changes |-> pro.division_changes,
     divisions_fought |-> pro.divisions_fought, last_world_news |-> pro.last_world_news,
     last_player_fight_month |-> pro.last_player_fight_month]

(* ProCareer.from_dict leaving staff_levels out of the constructor call: *)
(* the loaded career has the default, an empty dict                      *)
ProCareer_from_dict_staffless(payload) ==
    [ProCareer_to_dict(payload) EXCEPT !.staff_levels = [k \in StaffKeys |-> AbsentLevel]]

ProCareer_from_dict(payload) ==
    [is_active |-> payload.is_active, promoter |-> payload.promoter,
     organization_focus |-> payload.organization_focus,
     rankings |-> [o \in OrgNames |-> payload.rankings[o]],
     organization_champions |->
         [o \in OrgNames |-> [d \in DivisionNames |->
             ChampionFromPayload(payload.organization_champions[o][d])]],
     organization_defenses |->
         [o \in OrgNames |-> [d \in DivisionNames |->
             CountFromPayload(payload.organization_defenses[o][d], AbsentRank)]],
     record |-> CareerRecord_from_dict(payload.record),
     purse_balance |-> payload.purse_balance, total_earnings |-> payload.total_earnings,
     staff_levels |->
         [k \in StaffKeys |-> CountFromPayload(payload.staff_levels[k], AbsentLevel)],
     lineal_champions |->
         [d \in DivisionNames |-> ChampionFromPayload(payload.lineal_champions[d])],
     lineal_defenses |->
         [d \in DivisionNames |-> CountFromPayload(payload.lineal_defenses[d], AbsentRank)],
     division_changes |-> Max(0, payload.division_changes),
     divisions_fought |-> DivisionsFromPayload(payload.divisions_fought, << >>),
     last_world_news |-> LastWindow(payload.last_world_news, 20),
     last_player_fight_month |-> Max(0, payload.last_player_fight_month)]

CareerState_to_dict(s) ==
    [boxer |-> Boxer_to_dict(s.boxer), month |-> s.month, year |-> s.year,
     career_months |-> s.career_months, amateur_progress |-> s.amateur_progress,
     pro_career |-> ProCareer_to_dict(s.pro_career),
     history |-> [i \in 1..Len(s.history) |-> FightHistoryEntry_to_dict(s.history[i])],
     is_retired |-> s.is_retired, retirement_age |-> s.retirement_age,
     retirement_reason |-> s.retirement_reason]

(* the boxer of the payload, aged up to the age the career months imply *)
LoadedBoxer(boxer, career_months) ==
    [boxer EXCEPT !.age = Max(@, STARTING_AGE + (career_months \div 12))]

CareerState_from_dict(payload) ==
    [boxer |-> LoadedBoxer(Boxer_from_dict(payload.boxer), Max(0, payload.career_months)),
     month |-> IF payload.month \in 1..12 THEN payload.month ELSE 1,
     year |-> IF payload.year >= 1 THEN payload.year ELSE 1,
     career_months |-> Max(0, payload.career_months),
     amateur_progress |-> [fights_taken |-> payload.amateur_progress.fights_taken,
                           tier |-> payload.amateur_progress.tier],
     pro_career |-> ProCareer_from_dict(payload.pro_career),
     history |-> [i \in 1..Len(payload.history) |->
                     FightHistoryEntry_from_dict(payload.history[i])],
     is_retired |-> payload.is_retired,
     retirement_age |-> CountFromPayload(payload.retirement_age, NoAge),
     retirement_reason |-> payload.retirement_reason]

(***************************************************************************)
(* The operations of the career, one action each.  last records the call   *)
(* that produced the current state: the operation, whether it raised and   *)
(* with what, what evaluate_retirement returned, whether the career was     *)
(* changed by it, and the arguments of a fight or a division change.  A    *)
(* call that leaves the career as it was is explored as a leaf: the calls  *)
(* that can follow it are the calls that follow the state it was made in.  *)
(***************************************************************************)
NoEval ==
    [is_retired |-> FALSE, newly_retired |-> FALSE, forced |-> FALSE,
     chance |-> 0, roll |-> NoRoll, reason |-> NoReason]

NoCall == [target |-> ""]

Returned(op, pre, post) ==
    [op |-> op, raised |-> FALSE, error |-> "", eval |-> NoEval,
     moved |-> (post # pre), call |-> NoCall]

Raised(op, error, pre, post) ==
    [op |-> op, raised |-> TRUE, error |-> error, eval |-> NoEval,
     moved |-> (post # pre), call |-> NoCall]

Live == last.moved /\ (state.is_retired => budget.retired > 0)

(* The budget counts the calls still to be explored: the calls that change *)
(* the career, and among them the amateur fights, the pro fights, the      *)
(* months of the clock, the calls on a retired career and the extras, the  *)
(* calls off the path of the fights (training, rest, spending, months of   *)
(* the world, division changes and malformed purses).                      *)
Spent(kinds, months) ==
    [k \in DOMAIN budget |->
        IF k = "months" THEN budget[k] - months
        ELSE IF \/ k \in kinds
                \/ k = "calls"
                \/ (k = "retired" /\ state.is_retired)
        THEN budget[k] - 1 ELSE budget[k]]

CanSpend(kinds, months) ==
    /\ budget.calls > 0
    /\ \A k \in kinds : budget[k] > 0
    /\ months <= budget.months

(* a call that leaves the career as post and is recorded as record; the    *)
(* actions ask CanSpend first where the call changes the career whenever   *)
(* it returns                                                              *)
Call(post, record, kinds, months) ==
    /\ post # state => CanSpend(kinds, months)
    /\ state' = post
    /\ last' = record
    /\ budget' = IF post = state THEN budget ELSE Spent(kinds, months)

(* a call that returns, and a call that raises, leaving the career as post *)
Returns(op, post, kinds, months) ==
    Call(post, Returned(op, state, post), kinds, months)

Raises(op, error, post) ==
    Call(post, Raised(op, error, state, post), {}, 0)

(* the same with the arguments of the call on record *)
ReturnsWith(op, post, call, kinds) ==
    Call(post, [Returned(op, state, post) EXCEPT !.call = call], kinds, 0)

RaisesWith(op, error, post, call, kinds) ==
    Call(post, [Raised(op, error, state, post) EXCEPT !.call = call], kinds, 0)

Init ==
    /\ state = CareerState
    /\ last = [Returned("init", CareerState, CareerState) EXCEPT !.moved = TRUE]
    /\ budget = [calls |-> MaxCalls, amateur_fights |-> MaxAmateurFights,
                 pro_fights |-> MaxProFights, months |-> MaxCareerMonths,
                 retired |-> MaxRetiredCalls, extras |-> MaxExtras]

(* career_clock.advance_month(state, months) *)
MonthChoices == {0, 12}

AdvanceMonth ==
    /\ Live
    /\ \E months \in MonthChoices \cup {-1} :
        IF months < 0
        THEN Raises("advance_month", "months must be >= 0", state)
        ELSE /\ months > 0 => CanSpend({}, months)
             /\ Returns("advance_month", advance_month(state, months), {}, months)

(* retirement_engine.evaluate_retirement(state, rng) *)
Rolls == {0, 999}

Evaluated(out) ==
    Call(out.state,
         [Returned("evaluate_retirement", state, out.state) EXCEPT !.eval = out.eval],
         {}, 0)

EvaluateRetirement ==
    /\ Live
    /\ \E roll \in Rolls : Evaluated(evaluate_retirement(state, roll))

(* amateur_circuit.generate_opponent(state, rng) *)
GenerateOpponent ==
    /\ Live
    /\ IF generate_opponent_error(state) # ""
       THEN Raises("generate_opponent", generate_opponent_error(state), state)
       ELSE Returns("generate_opponent", state, {}, 0)

(* amateur_circuit.apply_fight_result(state, opponent, result) *)
ApplyFightResult ==
    /\ Live
    /\ IF apply_fight_result_error(state) # ""
       THEN Raises("apply_fight_result", apply_fight_result_error(state), state)
       ELSE /\ CanSpend({"amateur_fights"}, 0)
            /\ \E opponent \in generate_opponent(state) :
                 \E result \in FightResults(opponent.name, current_tier(state).rounds) :
                   Returns("apply_fight_result",
                           apply_fight_result(state, opponent, result),
                           {"amateur_fights"}, 0)

(* pro_spending.apply_standard_training(state, focus) *)
FocusChoices == {"power", "cardio"}

ApplyStandardTraining ==
    /\ Live
    /\ \E focus \in FocusChoices :
        IF ~KnownFocus(focus)
        THEN Raises("apply_standard_training", "unknown focus", state)
        ELSE Returns("apply_standard_training", apply_standard_training(state, focus),
                     {"extras"}, 0)

(* pro_spending.apply_rest_month(state) *)
ApplyRestMonth ==
    /\ Live
    /\ Returns("apply_rest_month", apply_rest_month(state), {"extras"}, 0)

(* pro_spending.special_training_camp(state, focus) *)
SpecialTrainingCamp ==
    /\ Live
    /\ \E focus \in FocusChoices :
        IF special_training_camp_error(state, focus) # ""
        THEN Raises("special_training_camp", special_training_camp_error(state, focus),
                    state)
        ELSE Returns("special_training_camp", special_training_camp(state, focus),
                     {"extras"}, 0)

(* pro_spending.medical_recovery(state) *)
MedicalRecovery ==
    /\ Live
    /\ IF medical_recovery_error(state) # ""
       THEN Raises("medical_recovery", medical_recovery_error(state), state)
       ELSE Returns("medical_recovery", medical_recovery(state), {"extras"}, 0)

(* pro_spending.purchase_staff_upgrade(state, staff_key) *)
StaffChoices == {"elite_coach", "cutman"}

StaffCall(error, post) ==
    IF error # ""
    THEN Raises("purchase_staff_upgrade", error, post)
    ELSE Returns("purchase_staff_upgrade", post, {"extras"}, 0)

PurchaseStaffUpgrade ==
    /\ Live
    /\ \E staff_key \in StaffChoices :
        StaffCall(purchase_staff_upgrade_error(state, staff_key),
                  purchase_staff_upgrade(state, staff_key))

(* pro_career.turn_pro(state, rng) *)
FocusPicks == {"WBC"}

SigningBonuses ==
    {RulesTurnPro.signing_bonus_min, RulesTurnPro.signing_bonus_max}

TurnPro ==
    /\ Live
    /\ IF turn_pro_error(state) # ""
       THEN Raises("turn_pro", turn_pro_error(state), state)
       ELSE /\ CanSpend({}, 0)
            /\ \E promoter \in RulesPromoters, organization_focus \in FocusPicks,
                  signing_bonus \in SigningBonuses :
                 Returns("turn_pro",
                         turn_pro(state, promoter, organization_focus, signing_bonus),
                         {}, 0)

(* pro_career.generate_pro_opponent(state, rng) *)
GenerateProOpponent ==
    /\ Live
    /\ IF generate_pro_opponent_error(state) # ""
       THEN Raises("generate_pro_opponent", generate_pro_opponent_error(state), state)
       ELSE Returns("generate_pro_opponent", ensure_rankings(state), {}, 0)

(* The purse dicts a caller passes to apply_pro_fight_result: the offer of *)
(* offer_purse for each list determine_sanctioning_bodies can return, and  *)
(* the offer with the key "net" or the key "gross" left out.               *)
PurseOffers(s, opponent) ==
    {offer_purse(s, opponent, bodies) :
        bodies \in determine_sanctioning_bodies(s, opponent)}

MalformedPurses(offers) ==
    UNION {{[p EXCEPT !.keys = @ \ {"net"}], [p EXCEPT !.keys = @ \ {"gross"}]} :
             p \in offers}

PurseChoices(offers) == offers \cup MalformedPurses(offers)

(* pro_career.apply_pro_fight_result(state, opponent, result, purse) with  *)
(* the opponent of generate_pro_opponent and the result of a bout over the *)
(* tier's rounds                                                           *)
ProFightCall(error, post, call) ==
    IF error # ""
    THEN RaisesWith("apply_pro_fight_result", error, post, call, {"pro_fights", "extras"})
    ELSE ReturnsWith("apply_pro_fight_result", post, call, {"pro_fights"})

ProFightCalls(s0) ==
    \E opponent \in generate_pro_opponent(s0) :
      \E result \in FightResults(opponent.name, pro_tier(s0).rounds),
         purse \in PurseChoices(PurseOffers(s0, opponent)) :
        ProFightCall(apply_pro_fight_result_error(state, purse),
                     apply_pro_fight_result(state, opponent, result, purse),
                     [target |-> "", opponent |-> opponent, result |-> result,
                      purse |-> purse, rankings_before |-> s0.pro_career.rankings])

ApplyProFightResult ==
    /\ Live
    /\ IF ~state.pro_career.is_active
       THEN Raises("apply_pro_fight_result", "turn pro before applying pro results", state)
       ELSE /\ CanSpend({"pro_fights"}, 0)
            /\ ProFightCalls(ensure_rankings(state))

(* pro_career.change_division(state, target_division, rng) *)
(* the jitter explored with a seed: down from a seed of the first bracket, *)
(* up from a seed of the last                                              *)
JitterDraws(seed_rank) ==
    {[o \in OrgNames |-> j] :
        j \in {k \in Jitters : IF seed_rank \in {NoRank, 4} THEN k < 0 ELSE k > 0}}

DivisionCall(target_division, error, call) ==
    IF error = "turn pro before changing divisions"
    THEN RaisesWith("change_division", error, state, call, {})
    ELSE IF error # ""
    THEN RaisesWith("change_division", error, ensure_rankings(state), call, {})
    ELSE /\ CanSpend({"extras"}, 0)
         /\ \E seed_rank \in _seed_rank_from_p4p(ensure_rankings(state)) :
             \E jitter \in JitterDraws(seed_rank) :
              ReturnsWith("change_division",
                          change_division(state, target_division, seed_rank, jitter),
                          call, {"extras"})

ChangeDivision ==
    /\ Live
    /\ \E target_division \in TargetTexts :
        DivisionCall(target_division, change_division_error(state, target_division),
                     [target |-> target_division])

(* world_sim.simulate_world_month(state, rng): the draws of the random     *)
(* stream give every title of a simulated division its outcome and every   *)
(* organization its drift                                                  *)
ScriptFor(champion, vacant, held) ==
    IF champion = NoName THEN vacant
    ELSE IF champion = BoxerName THEN "none" ELSE held

TitleScripts(s0) ==
    {[o \in OrgNames |->
         ScriptFor(organization_division_champion(s0, o, s0.boxer.division),
                   script[1], script[2])] :
       script \in {<<"vacA", "none">>, <<"vacB", "upset">>, <<"vacA", "defense">>}}

DrawsFor(s0) ==
    {[d \in DivisionNames |->
         IF d = s0.boxer.division THEN f ELSE [o \in OrgNames |-> "none"]] :
       f \in {g \in TitleScripts(s0) :
                \A o \in OrgNames : TitleDrawFits(s0, o, s0.boxer.division, g[o])}}

WorldDraws(s) == DrawsFor(ensure_organization_titles(ensure_rankings(s)))

DriftScripts(s) == {[o \in OrgNames |-> drift] : drift \in DriftDraws(s)}

SimulateWorldMonth ==
    /\ Live
    /\ IF ~state.pro_career.is_active
       THEN Returns("simulate_world_month", simulate_world_month(state, << >>, << >>), {}, 0)
       ELSE \E draws \in WorldDraws(state), drifts \in DriftScripts(state) :
              Returns("simulate_world_month", simulate_world_month(state, draws, drifts),
                      {"extras"}, 0)

Next ==
    \/ AdvanceMonth
    \/ EvaluateRetirement
    \/ GenerateOpponent
    \/ ApplyFightResult
    \/ ApplyStandardTraining
    \/ ApplyRestMonth
    \/ SpecialTrainingCamp
    \/ MedicalRecovery
    \/ PurchaseStaffUpgrade
    \/ TurnPro
    \/ GenerateProOpponent
    \/ ApplyProFightResult
    \/ ChangeDivision
    \/ SimulateWorldMonth

Spec == Init /\ [][Next]_vars

(***************************************************************************)
(* The title run: the career from the states a scripted opening reaches,   *)
(* with the pro operations only.  The opening: two amateur stoppage wins,  *)
(* a year, turn_pro and a first pro win make the ranked prospect; a win    *)
(* over the organization's champion makes the champion; a win over the     *)
(* lineal champion, a move up and the move back make the returned boxer,   *)
(* whose old division has no lineal champion and who is seeded back from   *)
(* the first band of _seed_rank_from_p4p.                                  *)
(***************************************************************************)
StoppageWin == [winner |-> BoxerName, method |-> "TKO", rounds_completed |-> 1]

AmateurWins(starts) ==
    UNION {{apply_fight_result(s, opponent, StoppageWin) :
               opponent \in generate_opponent(s)} : s \in starts}

OpeningAmateur ==
    {advance_month(s, 12) : s \in AmateurWins(AmateurWins({CareerState}))}

OpeningPro ==
    {turn_pro(s, promoter, organization_focus, RulesTurnPro.signing_bonus_min) :
        s \in OpeningAmateur, promoter \in RulesPromoters, organization_focus \in FocusPicks}

(* the opponents of the opening: ranked by the focus organization only *)
OpeningOpponents(s) ==
    {o \in generate_pro_opponent(s) :
        \A org \in OrgNames \ {s.pro_career.organization_focus} :
            o.organization_ranks[org] = NoRank}

(* a stoppage win over each opponent of the set, for the purse of a fight  *)
(* the focus organization sanctions alone                                  *)
ProWins(s, opponents) ==
    {apply_pro_fight_result(s, opponent, StoppageWin,
         offer_purse(s, opponent, {s.pro_career.organization_focus})) :
       opponent \in opponents}

RankedProspect ==
    UNION {ProWins(s, OpeningOpponents(s)) : s \in OpeningPro}

Champion ==
    UNION {ProWins(s, {o \in OpeningOpponents(s) :
                          o.name = organization_division_champion(
                                       s, s.pro_career.organization_focus, s.boxer.division)}) :
           s \in RankedProspect}

LinealChampion ==
    UNION {ProWins(s, {o \in OpeningOpponents(s) :
                          o.name = current_division_lineal_champion(s)}) :
           s \in RankedProspect}

ReturnedBoxer ==
    LET up == {change_division(s, "super_welterweight", NoRank, jitter) :
                  s \in LinealChampion, jitter \in JitterDraws(NoRank)}
    IN  UNION {{change_division(s, "welterweight", seed_rank, [o \in OrgNames |-> j]) :
                   seed_rank \in {r \in _seed_rank_from_p4p(s) : r \in 4..6}, j \in Jitters} :
               s \in up}

TitleInit ==
    /\ state \in RankedProspect \cup Champion \cup ReturnedBoxer
    /\ last = [Returned("init", state, state) EXCEPT !.moved = TRUE]
    /\ budget = [calls |-> MaxTitleCalls, amateur_fights |-> 0,
                 pro_fights |-> MaxProFights,
                 months |-> MaxCareerMonths - state.career_months,
                 retired |-> 0, extras |-> MaxExtras]

TitleNext ==
    \/ AdvanceMonth
    \/ GenerateProOpponent
    \/ ApplyProFightResult
    \/ ChangeDivision
    \/ SimulateWorldMonth

TitleSpec == TitleInit /\ [][TitleNext]_vars

(***************************************************************************)
(* The backfill run: pro careers as ProCareer.from_dict loads them from a  *)
(* save that lacks ledger keys, and the three backfill functions called on *)
(* them.  A lost organization has no rank and no title dicts; a lost       *)
(* division has no lineal entry and no entry in any organization's dicts.  *)
(***************************************************************************)
Unfilled(s, lost_orgs, lost_divisions) ==
    [s EXCEPT
       !.pro_career.rankings =
           [o \in OrgNames |-> IF o \in lost_orgs THEN AbsentRank ELSE @[o]],
       !.pro_career.lineal_champions =
           [d \in DivisionNames |-> IF d \in lost_divisions THEN AbsentName ELSE @[d]],
       !.pro_career.lineal_defenses =
           [d \in DivisionNames |-> IF d \in lost_divisions THEN AbsentRank ELSE @[d]],
       !.pro_career.organization_champions =
           [o \in OrgNames |-> [d \in DivisionNames |->
               IF o \in lost_orgs \/ d \in lost_divisions THEN AbsentName ELSE @[o][d]]],
       !.pro_career.organization_defenses =
           [o \in OrgNames |-> [d \in DivisionNames |->
               IF o \in lost_orgs \/ d \in lost_divisions THEN AbsentRank ELSE @[o][d]]]]

LoadedCareers ==
    {Unfilled(s, lost_orgs, lost_divisions) :
        s \in Champion \cup ReturnedBoxer,
        lost_orgs \in SUBSET OrgNames,
        lost_divisions \in SUBSET DivisionNames}

BackfillInit ==
    /\ state \in LoadedCareers
    /\ last = [Returned("init", state, state) EXCEPT !.moved = TRUE]
    /\ budget = [calls |-> MaxTitleCalls, amateur_fights |-> 0, pro_fights |-> 0,
                 months |-> 0, retired |-> 0, extras |-> 0]

(* pro_career.ensure_rankings(state) *)
EnsureRankings ==
    /\ Live
    /\ Returns("ensure_rankings", ensure_rankings(state), {}, 0)

(* pro_career.ensure_lineal_titles(state) *)
EnsureLinealTitles ==
    /\ Live
    /\ Returns("ensure_lineal_titles", ensure_lineal_titles(state), {}, 0)

(* pro_career.ensure_organization_titles(state) *)
EnsureOrganizationTitles ==
    /\ Live
    /\ Returns("ensure_organization_titles", ensure_organization_titles(state), {}, 0)

BackfillNext ==
    \/ EnsureRankings
    \/ EnsureLinealTitles
    \/ EnsureOrganizationTitles

BackfillSpec == BackfillInit /\ [][BackfillNext]_vars

(***************************************************************************)
(* The bout run: apply_pro_fight_result on the careers of the title run,   *)
(* with the purse dict of a caller who writes the sanctioning list: the    *)
(* offer of offer_purse, or the offer with the focus organization taken    *)
(* off its list; and the rankings table read before and after the bout.    *)
(***************************************************************************)
MaxBoutCalls == 1

BoutInit ==
    /\ state \in RankedProspect \cup Champion \cup ReturnedBoxer
    /\ last = [Returned("init", state, state) EXCEPT !.moved = TRUE]
    /\ budget = [calls |-> MaxBoutCalls, amateur_fights |-> 0, pro_fights |-> MaxBoutCalls,
                 months |-> 0, retired |-> 0, extras |-> 0]

UnfocusedPurses(offers, focus_org) ==
    {[p EXCEPT !.sanctioning_bodies = @ \ {focus_org}] : p \in offers}

ListedPurses(offers, focus_org) == offers \cup UnfocusedPurses(offers, focus_org)

ListedPurseCalls(s0) ==
    \E opponent \in generate_pro_opponent(s0) :
      \E result \in FightResults(opponent.name, pro_tier(s0).rounds),
         purse \in ListedPurses(PurseOffers(s0, opponent), s0.pro_career.organization_focus) :
        ProFightCall("", apply_pro_fight_result(state, opponent, result, purse),
                     [target |-> "", opponent |-> opponent, result |-> result,
                      purse |-> purse, rankings_before |-> s0.pro_career.rankings])

(* pro_career.apply_pro_fight_result(state, opponent, result, purse) *)
ApplyListedPurse ==
    /\ Live
    /\ state.pro_career.is_active
    /\ CanSpend({"pro_fights"}, 0)
    /\ ListedPurseCalls(ensure_rankings(state))

(* pro_career.rankings_snapshot(state, organization, top_n=top_n) *)
TopN == 5

SnapshotOrganizations == OrgNames \cup {" wbc ", "IBO"}

SnapshotCall(organization, top_n, error) ==
    IF error \in {"rankings are available after turning pro", "top_n must be >= 1"}
    THEN RaisesWith("rankings_snapshot", error, state, [target |-> organization], {})
    ELSE IF error # ""
    THEN RaisesWith("rankings_snapshot", error, ensure_rankings(state),
                    [target |-> organization], {})
    ELSE ReturnsWith("rankings_snapshot", ensure_rankings(state),
                     [target |-> NormalizedOrganization(organization),
                      rows |-> rankings_snapshot(state, organization, top_n),
                      rankings_before |-> ensure_rankings(state).pro_career.rankings],
                     {})

RankingsSnapshot ==
    /\ Live
    /\ \E organization \in SnapshotOrganizations, top_n \in {0, TopN} :
         SnapshotCall(organization, top_n,
                      rankings_snapshot_error(state, organization, top_n))

BoutNext ==
    \/ GenerateProOpponent
    \/ ApplyListedPurse
    \/ RankingsSnapshot

BoutSpec == BoutInit /\ [][BoutNext]_vars

(***************************************************************************)
(* The world run: simulate_world_month on the careers of a champion who    *)
(* stays, who has moved up and left the title vacant, and who has come     *)
(* back to the vacant title, under the policies the rules can configure:   *)
(* the player's division only, every division, and every division with    *)
(* the smallest news limit _world_policy accepts.                          *)
(***************************************************************************)
MaxWorldCalls == 2

MovedChampion ==
    UNION {{change_division(s, "super_welterweight", seed_rank, jitter) :
               jitter \in JitterDraws(seed_rank)} :
           s \in Champion, seed_rank \in {NoRank}}

ReturnedChampion ==
    UNION {{change_division(s, "welterweight", seed_rank, jitter) :
               jitter \in JitterDraws(seed_rank)} :
           s \in MovedChampion, seed_rank \in {NoRank}}

WorldInit ==
    /\ state \in Champion \cup MovedChampion \cup ReturnedChampion
    /\ last = [Returned("init", state, state) EXCEPT !.moved = TRUE]
    /\ budget = [calls |-> MaxWorldCalls, amateur_fights |-> 0, pro_fights |-> 0,
                 months |-> 0, retired |-> 0, extras |-> 0]

AllDivisionsPolicy == [RulesWorldSimulation EXCEPT !.simulate_all_divisions = TRUE]

ShortNewsPolicy == [AllDivisionsPolicy EXCEPT !.max_news_items_per_month = 1]

WorldPolicies == {RulesWorldSimulation, AllDivisionsPolicy, ShortNewsPolicy}

(* the draws of the random stream for the titles of every division: one    *)
(* script for the player's division and one for the others                 *)
Scripts == {<<"vacA", "none">>, <<"vacB", "upset">>, <<"vacA", "defense">>}

ScriptedDraws(s0, own, other) ==
    [d \in DivisionNames |-> [o \in OrgNames |->
        IF d = s0.boxer.division
        THEN ScriptFor(organization_division_champion(s0, o, d), own[1], own[2])
        ELSE ScriptFor(organization_division_champion(s0, o, d), other[1], other[2])]]

AllDrawsFor(s0) ==
    {draws \in {ScriptedDraws(s0, own, other) : own \in Scripts, other \in Scripts} :
        \A d \in DivisionNames, o \in OrgNames : TitleDrawFits(s0, o, d, draws[d][o])}

(* world_sim.simulate_world_month(state, rng) under a policy *)
WorldMonthCalls(s0, policy) ==
    \E draws \in AllDrawsFor(s0), drifts \in DriftScripts(state) :
        ReturnsWith("simulate_world_month", WorldMonthUnder(policy, state, draws, drifts),
                    [target |-> "", policy |-> policy,
                     champions_before |-> s0.pro_career.organization_champions],
                    {})

SimulateWorldMonthUnder ==
    /\ Live
    /\ state.pro_career.is_active
    /\ \E policy \in WorldPolicies :
         WorldMonthCalls(ensure_organization_titles(ensure_rankings(state)), policy)

WorldNext == SimulateWorldMonthUnder

WorldSpec == WorldInit /\ [][WorldNext]_vars

(***************************************************************************)
(* The debut run: the amateur career up to turn_pro, for a boxer created   *)
(* under either of two names.  The name given to create_boxer is read      *)
(* from turn_pro on, where _seeded_name seeds the title boards with the    *)
(* pick of random.Random("<name>:<label>") from the pools FIRST_NAMES and  *)
(* LAST_NAMES: for most names the pick differs from the name, and for the  *)
(* name "Caleb Petrov" the pick for the label "WBC:champ:welterweight" is  *)
(* "Caleb Petrov".                                                         *)
(***************************************************************************)
PlayerNames == {BoxerName, "Caleb Petrov"}

(* _seeded_name(state, label) for a boxer of the given name *)
SeededNameOf(name, kind, org, division) ==
    IF name = "Caleb Petrov" /\ kind = "champ" /\ org = "WBC" /\ division = "welterweight"
    THEN "Caleb Petrov"
    ELSE _seeded_name(kind, org, division)

(* turn_pro for a boxer of the given name: the boards of the fresh         *)
(* ProCareer are empty, so ensure_rankings seeds every title               *)
TurnProAs(name, s, promoter, organization_focus, signing_bonus) ==
    [turn_pro(s, promoter, organization_focus, signing_bonus) EXCEPT
       !.pro_career.lineal_champions =
           [d \in DivisionNames |-> SeededNameOf(name, "lineal", "", d)],
       !.pro_career.organization_champions =
           [o \in OrgNames |-> [d \in DivisionNames |-> SeededNameOf(name, "champ", o, d)]]]

TurnProNamed ==
    /\ Live
    /\ IF turn_pro_error(state) # ""
       THEN Raises("turn_pro", turn_pro_error(state), state)
       ELSE \E name \in PlayerNames, promoter \in RulesPromoters,
               organization_focus \in OrgNames, signing_bonus \in SigningBonuses :
              ReturnsWith("turn_pro",
                          TurnProAs(name, state, promoter, organization_focus, signing_bonus),
                          [target |-> "", name |-> name], {})

DebutNext ==
    \/ AdvanceMonth
    \/ GenerateOpponent
    \/ ApplyFightResult
    \/ TurnProNamed

DebutSpec == Init /\ [][DebutNext]_vars

(***************************************************************************)
(* The clock run: advance_month alone, by spans that end inside a year, on *)
(* its last month and past it.                                             *)
(***************************************************************************)
MonthSpans == {-1, 0, 1, 5, 11, 12, 13}

AdvanceMonthBy ==
    /\ Live
    /\ \E months \in MonthSpans :
        IF months < 0
        THEN RaisesWith("advance_month", "months must be >= 0", state,
                        [target |-> "", months |-> months], {})
        ELSE /\ months > 0 => CanSpend({}, months)
             /\ Call(advance_month(state, months),
                     [Returned("advance_month", state, advance_month(state, months))
                         EXCEPT !.call = [target |-> "", months |-> months]],
                     {}, months)

ClockNext == AdvanceMonthBy

ClockSpec == Init /\ [][ClockNext]_vars

(***************************************************************************)
(* The gym run: boxers deep into one training focus, as amateurs, as new   *)
(* pros and as pros past the onset of decline, so that the trained stat    *)
(* sits at the upper limit and the stat the focus costs at the lower one.  *)
(***************************************************************************)
MaxDrills == 45

(* the careers n months of standard training on one focus on; the         *)
(* comparison has the stats and the staff levels of a month computed       *)
(* before the next month reads them                                        *)
Computed(s) ==
    /\ s.boxer.stats = s.boxer.stats
    /\ s.pro_career.staff_levels = s.pro_career.staff_levels

RECURSIVE Drilled(_, _, _)
Drilled(careers, focus, n) ==
    IF n = 0 THEN careers
    ELSE Drilled({t \in {apply_standard_training(s, focus) : s \in careers} : Computed(t)},
                 focus, n - 1)

(* the careers a number of years on *)
RECURSIVE Aged(_, _)
Aged(careers, years) ==
    IF years = 0 THEN careers
    ELSE Aged({t \in {advance_month(s, 12) : s \in careers} : Computed(t)}, years - 1)

GymFocuses == {"power", "speed", "ring_iq"}

Veterans == Aged(OpeningPro, AgingProfile.decline_onset_age - STARTING_AGE)

GymInit ==
    /\ state \in UNION {Drilled({CareerState} \cup OpeningPro \cup Veterans, focus, MaxDrills) :
                            focus \in GymFocuses}
    /\ last = [Returned("init", state, state) EXCEPT !.moved = TRUE]
    /\ budget = [calls |-> MaxTitleCalls, amateur_fights |-> 0, pro_fights |-> 0,
                 months |-> MaxCareerMonths, retired |-> 0, extras |-> MaxTitleCalls]

ApplyStandardTrainingOn ==
    /\ Live
    /\ \E focus \in GymFocuses \cup {"cardio"} :
        IF ~KnownFocus(focus)
        THEN Raises("apply_standard_training", "unknown focus", state)
        ELSE Returns("apply_standard_training", apply_standard_training(state, focus),
                     {"extras"}, 0)

SpecialTrainingCampOn ==
    /\ Live
    /\ \E focus \in GymFocuses :
        IF special_training_camp_error(state, focus) # ""
        THEN Raises("special_training_camp", special_training_camp_error(state, focus),
                    state)
        ELSE Returns("special_training_camp", special_training_camp(state, focus),
                     {"extras"}, 0)

GymNext ==
    \/ ApplyStandardTrainingOn
    \/ SpecialTrainingCampOn
    \/ AdvanceMonth
    \/ ChangeDivision

GymSpec == GymInit /\ [][GymNext]_vars

(***************************************************************************)
(* The desk run: the amateur career up to turn_pro, with the queries a     *)
(* front end issues between the operations: current_tier,                  *)
(* pro_readiness_status, rankings_snapshot, pound_for_pound_snapshot,      *)
(* list_staff_upgrade_options and offer_purse.  A query is recorded with   *)
(* the state it leaves behind.                                             *)
(***************************************************************************)
(* pro_spending.list_staff_upgrade_options(state): the option of every     *)
(* staff key, read after ensure_staff_levels has filled the staff dict     *)
StaffUpgradeOption(s1, staff_key) ==
    LET cfg == RulesProSpending.staff_upgrades[staff_key]
        level == s1.pro_career.staff_levels[staff_key]
    IN  [key |-> staff_key, level |-> level, max_level |-> cfg.max_level,
         next_cost |-> IF level < cfg.max_level /\ level < Len(cfg.cost_by_level)
                       THEN {cfg.cost_by_level[level + 1]} ELSE {}]

list_staff_upgrade_options(s) ==
    [value |-> [k \in StaffKeys |-> StaffUpgradeOption(ensure_staff_levels(s), k)],
     state |-> ensure_staff_levels(s)]

QueryOps ==
    {"current_tier", "pro_readiness_status", "rankings_snapshot",
     "pound_for_pound_snapshot", "list_staff_upgrade_options", "offer_purse"}

(* amateur_circuit.current_tier(state) *)
CurrentTier ==
    /\ Live
    /\ ReturnsWith("current_tier", state,
                   [target |-> "", tier |-> current_tier(state)], {})

(* amateur_circuit.pro_readiness_status(state) *)
ProReadinessStatus ==
    /\ Live
    /\ ReturnsWith("pro_readiness_status", state,
                   [target |-> "", status |-> pro_readiness_status(state)], {})

(* pro_career.pound_for_pound_snapshot(state, top_n=top_n) *)
PoundForPoundSnapshot ==
    /\ Live
    /\ \E top_n \in {0, TopN} :
         IF ~state.pro_career.is_active
         THEN RaisesWith("pound_for_pound_snapshot",
                         "pound-for-pound rankings are available after turning pro",
                         state, [target |-> "", top_n |-> top_n], {})
         ELSE IF top_n < 1
         THEN RaisesWith("pound_for_pound_snapshot", "top_n must be >= 1",
                         state, [target |-> "", top_n |-> top_n], {})
         ELSE ReturnsWith("pound_for_pound_snapshot", ensure_rankings(state),
                          [target |-> "", top_n |-> top_n], {})

(* pro_spending.list_staff_upgrade_options(state) *)
ListStaffUpgradeOptions ==
    /\ Live
    /\ ReturnsWith("list_staff_upgrade_options", list_staff_upgrade_options(state).state,
                   [target |-> "", options |-> list_staff_upgrade_options(state).value], {})

(* pro_career.offer_purse(state, opponent, rng) with the opponent of       *)
(* generate_pro_opponent                                                   *)
OfferPurse ==
    /\ Live
    /\ IF ~state.pro_career.is_active
       THEN Raises("offer_purse", "turn pro before requesting a purse offer", state)
       ELSE \E opponent \in generate_pro_opponent(ensure_rankings(state)) :
              \E purse \in PurseOffers(ensure_rankings(state), opponent) :
                ReturnsWith("offer_purse", ensure_rankings(state),
                            [target |-> "", opponent |-> opponent, purse |-> purse], {})

DeskNext ==
    \/ AdvanceMonth
    \/ GenerateOpponent
    \/ ApplyFightResult
    \/ TurnPro
    \/ CurrentTier
    \/ ProReadinessStatus
    \/ RankingsSnapshot
    \/ PoundForPoundSnapshot
    \/ ListStaffUpgradeOptions
    \/ OfferPurse

DeskSpec == Init /\ [][DeskNext]_vars

(***************************************************************************)
(* fight_sim_engine.py.  Forms, swings and margins are in thousandths of a *)
(* point, chances and draws of random() in millionths.  A random stream is *)
(* a sequence of draws read from a position on, round the end; a draw      *)
(* gives the standard normal deviate, in tenths, to a call of gauss and    *)
(* the uniform variate to a call of random.                                *)
(***************************************************************************)
(* fight_model.json, the constants of the simulation per model key: style  *)
(* weights in thousandths, swing_factor and judge_noise in hundredths,     *)
(* chances in millionths, stamina decay in hundredths of a fatigue point,  *)
(* fatigue penalty in tenths, injury penalty and threshold in thousandths  *)
RulesFightSim ==
    [ amateur |-> [ rounds |-> 3,
                    style_weights |-> [s \in StatNames |->
                                          IF s \in {"speed", "defense"} THEN 200 ELSE 100],
                    swing_factor |-> 250, judge_noise |-> 100,
                    base_ko_chance |-> 10000, max_ko_chance |-> 200000,
                    stamina_decay_per_round |-> 35, fatigue_penalty_per_point |-> 4,
                    injury_risk_penalty_per_point |-> 0,
                    stoppage_margin_threshold |-> 3200 ],
      pro |->     [ rounds |-> 4,
                    style_weights |-> [s \in StatNames |->
                                          IF s \in {"power", "chin"} THEN 200 ELSE 100],
                    swing_factor |-> 250, judge_noise |-> 100,
                    base_ko_chance |-> 20000, max_ko_chance |-> 300000,
                    stamina_decay_per_round |-> 40, fatigue_penalty_per_point |-> 5,
                    injury_risk_penalty_per_point |-> 20,
                    stoppage_margin_threshold |-> 3200 ] ]

(* experience_model.json, the levels and the fight bonus, in hundredths *)
RulesExperienceLevels ==
    [ levels |-> << [name |-> "newcomer", min_points |-> 0],
                    [name |-> "prospect", min_points |-> 8],
                    [name |-> "contender", min_points |-> 20] >>,
      fight_bonus_per_level |-> 35,
      max_fight_bonus |-> 50 ]

(* experience_engine.py: the fight bonus of a profile, in hundredths; the  *)
(* levels are read sorted by min_points                                    *)
_total_record_fights(record) == Max(0, record.wins + record.losses + record.draws)

infer_points_from_total_fights(total_fights) ==
    IF total_fights <= 0 THEN 0
    ELSE Max(0, total_fights * Max(1, RulesExperienceModel.base_points_per_fight.amateur))

profile_from_points(points) ==
    LET levels == RulesExperienceLevels.levels
        reached == {i \in DOMAIN levels :
                       \A j \in 1..i : Max(0, points) >= levels[j].min_points}
        selected_index == IF reached = {} THEN 0 ELSE Cardinality(reached) - 1
    IN  [points |-> Max(0, points), level |-> selected_index + 1,
         fight_bonus |-> Min(RulesExperienceLevels.max_fight_bonus,
                             Max(0, selected_index * RulesExperienceLevels.fight_bonus_per_level))]

boxer_experience_profile(boxer) ==
    LET points == Max(0, boxer.experience_points)
        fights == _total_record_fights(boxer.record)
    IN  profile_from_points(IF points = 0 /\ fights > 0
                            THEN infer_points_from_total_fights(fights) ELSE points)

opponent_experience_profile(opponent) ==
    profile_from_points(infer_points_from_total_fights(_total_record_fights(opponent.record)))

Sum3(a, b, c) == a + b + c

RECURSIVE WeightedSum(_, _, _)
WeightedSum(stats, weights, keys) ==
    IF keys = {} THEN 0
    ELSE LET k == CHOOSE x \in keys : TRUE
         IN  stats[k] * weights[k] + WeightedSum(stats, weights, keys \ {k})

_weighted_skill(stats, weights) == WeightedSum(stats, weights, DOMAIN weights)

(* the draw at a position of the stream *)
DrawAt(stream, pos) == stream[((pos - 1) % Len(stream)) + 1]

(* randomizer.gauss(0, sigma) and randomizer.random() at a position *)
GaussAt(stream, pos, sigma) == DrawAt(stream, pos).gauss * sigma

RandomAt(stream, pos) == DrawAt(stream, pos).random

(* _check_stoppage without the threshold *)
_check_stoppage_unthresholded(round_margin, boxer_ko_chance, opp_ko_chance, stream, pos, threshold) ==
    LET after_first == IF round_margin > 0 THEN pos + 1 ELSE pos
        after_second == IF round_margin < 0 THEN after_first + 1 ELSE after_first
    IN  IF round_margin > 0 /\ RandomAt(stream, pos) < boxer_ko_chance
        THEN [winner |-> "boxer", pos |-> after_first]
        ELSE IF round_margin < 0 /\ RandomAt(stream, after_first) < opp_ko_chance
        THEN [winner |-> "opponent", pos |-> after_second]
        ELSE [winner |-> "", pos |-> after_second]

(* _check_stoppage: the side that stops the fight, if any, and the         *)
(* position of the stream after the draws the two tests made; random() is  *)
(* drawn only when the margin is beyond the threshold                      *)
_check_stoppage(round_margin, boxer_ko_chance, opp_ko_chance, stream, pos, threshold) ==
    LET after_first == IF round_margin > threshold THEN pos + 1 ELSE pos
        after_second == IF round_margin < -threshold THEN after_first + 1 ELSE after_first
    IN  IF round_margin > threshold /\ RandomAt(stream, pos) < boxer_ko_chance
        THEN [winner |-> "boxer", pos |-> after_first]
        ELSE IF round_margin < -threshold /\ RandomAt(stream, after_first) < opp_ko_chance
        THEN [winner |-> "opponent", pos |-> after_second]
        ELSE [winner |-> "", pos |-> after_second]

(* one judge's card after the round *)
ScoredCard(card, noisy_margin) ==
    IF noisy_margin > 1000
    THEN [boxer_points |-> card.boxer_points + 10, opponent_points |-> card.opponent_points + 9]
    ELSE IF noisy_margin < -1000
    THEN [boxer_points |-> card.boxer_points + 9, opponent_points |-> card.opponent_points + 10]
    ELSE [boxer_points |-> card.boxer_points + 10, opponent_points |-> card.opponent_points + 10]

(* _score_round: every judge draws a noise of their own, in the order of   *)
(* the cards                                                               *)
_score_round(round_margin, judge_cards, judge_noise, stream, pos) ==
    [i \in DOMAIN judge_cards |->
        ScoredCard(judge_cards[i],
                   round_margin + GaussAt(stream, pos + i - 1, judge_noise))]

JudgesFor(judge_cards, side) ==
    Cardinality({i \in DOMAIN judge_cards :
        CASE side = "boxer" -> judge_cards[i].boxer_points > judge_cards[i].opponent_points
          [] side = "opponent" -> judge_cards[i].opponent_points > judge_cards[i].boxer_points
          [] OTHER -> judge_cards[i].opponent_points = judge_cards[i].boxer_points})

DecisionWinner(boxer_judges, opponent_judges, boxer_name, opponent_name) ==
    IF boxer_judges > opponent_judges THEN boxer_name
    ELSE IF opponent_judges > boxer_judges THEN opponent_name
    ELSE DrawName

DecisionMethod(winner, boxer_judges, opponent_judges, draw_judges) ==
    IF winner = DrawName THEN "DRAW"
    ELSE IF draw_judges > 0 /\ Max(boxer_judges, opponent_judges) >= 2 THEN "MD"
    ELSE IF boxer_judges = 3 \/ opponent_judges = 3 THEN "UD"
    ELSE "SD"

(* a scorecard is the text "<boxer_points>-<opponent_points>", kept as the *)
(* pair of the two numbers                                                 *)
_decision_from_cards(judge_cards, boxer_name, opponent_name, scheduled_rounds) ==
    LET boxer_judges == JudgesFor(judge_cards, "boxer")
        opponent_judges == JudgesFor(judge_cards, "opponent")
        draw_judges == JudgesFor(judge_cards, "draw")
        winner == DecisionWinner(boxer_judges, opponent_judges, boxer_name, opponent_name)
    IN  [winner |-> winner,
         method |-> DecisionMethod(winner, boxer_judges, opponent_judges, draw_judges),
         rounds_completed |-> scheduled_rounds,
         scorecards |-> [i \in DOMAIN judge_cards |->
                            <<judge_cards[i].boxer_points, judge_cards[i].opponent_points>>],
         round_log |-> << >>]

(* the margin of a round: the forms with the fatigue the rounds before     *)
(* have added, and the two swings                                          *)
RoundMargin(boxer, opponent, model, round_number, stream, pos) ==
    LET decay == (round_number - 1) * model.stamina_decay_per_round
        boxer_form ==
            _weighted_skill(boxer.stats, model.style_weights)
            + 10 * boxer_experience_profile(boxer).fight_bonus
            - (100 * boxer.fatigue + decay) * model.fatigue_penalty_per_point
            - boxer.injury_risk * model.injury_risk_penalty_per_point
        opponent_form ==
            _weighted_skill(opponent.stats, model.style_weights)
            + 10 * opponent_experience_profile(opponent).fight_bonus
            - decay * model.fatigue_penalty_per_point
    IN  (boxer_form + GaussAt(stream, pos, model.swing_factor))
        - (opponent_form + GaussAt(stream, pos + 1, model.swing_factor))

KoChance(model, round_margin, power_edge) ==
    Min(model.max_ko_chance,
        Max(0, Sum3(model.base_ko_chance, Max(0, (Abs(round_margin) - 6000) * 12),
                    power_edge * 2000)))

RoundNote(round_number, round_margin, boxer_name, opponent_name) ==
    [round |-> round_number, stoppage |-> FALSE,
     winner |-> IF round_margin > 1200 THEN boxer_name
                ELSE IF round_margin < -1200 THEN opponent_name ELSE "even"]

StoppageResult(winner, round_number, sofar, round_margin) ==
    [winner |-> winner, method |-> "TKO", rounds_completed |-> round_number,
     scorecards |-> << >>,
     round_log |-> Append(sofar.round_log, [round |-> round_number, stoppage |-> TRUE,
                                            winner |-> winner]),
     margins |-> Append(sofar.margins, round_margin)]

Decision(sofar, opponent, scheduled_rounds) ==
    _decision_from_cards(sofar.judge_cards, BoxerName, opponent.name, scheduled_rounds)

(* the rounds from round_number on; next to the fields of FightResult the   *)
(* result keeps the margins of the rounds fought, for the properties       *)
RECURSIVE SimulateRounds(_, _, _, _, _, _, _, _)
SimulateRounds(boxer, opponent, model, scheduled_rounds, round_number, stream, pos, sofar) ==
    IF round_number > scheduled_rounds
    THEN [winner |-> Decision(sofar, opponent, scheduled_rounds).winner,
          method |-> Decision(sofar, opponent, scheduled_rounds).method,
          rounds_completed |-> Decision(sofar, opponent, scheduled_rounds).rounds_completed,
          scorecards |-> Decision(sofar, opponent, scheduled_rounds).scorecards,
          round_log |-> sofar.round_log,
          margins |-> sofar.margins]
    ELSE LET round_margin == RoundMargin(boxer, opponent, model, round_number, stream, pos)
             stoppage ==
                 _check_stoppage(round_margin,
                                 KoChance(model, round_margin,
                                          boxer.stats["power"] - opponent.stats["chin"]),
                                 KoChance(model, round_margin,
                                          opponent.stats["power"] - boxer.stats["chin"]),
                                 stream, pos + 2, model.stoppage_margin_threshold)
         IN  IF stoppage.winner # ""
             THEN StoppageResult(IF stoppage.winner = "boxer" THEN BoxerName ELSE opponent.name,
                                 round_number, sofar, round_margin)
             ELSE SimulateRounds(
                      boxer, opponent, model, scheduled_rounds, round_number + 1, stream,
                      stoppage.pos + 3,
                      [judge_cards |-> _score_round(round_margin, sofar.judge_cards,
                                                    model.judge_noise, stream, stoppage.pos),
                       round_log |-> Append(sofar.round_log,
                                            RoundNote(round_number, round_margin,
                                                      BoxerName, opponent.name)),
                       margins |-> Append(sofar.margins, round_margin)])

NoRounds == -1

NoResult == [winner |-> "", method |-> "", rounds_completed |-> 0,
             scorecards |-> << >>, round_log |-> << >>, margins |-> << >>]

ScheduledRounds(model_key, rounds) ==
    IF rounds = NoRounds THEN RulesFightSim[model_key].rounds ELSE rounds

_simulate_with_model_error(model_key, rounds) ==
    IF model_key \notin DOMAIN RulesFightSim THEN "unknown fight model"
    ELSE IF ScheduledRounds(model_key, rounds) < 1 THEN "rounds must be >= 1"
    ELSE ""

(* _simulate_with_model(boxer, opponent, model_key, rounds, rng) for the   *)
(* stream the randomizer yields                                            *)
_simulate_with_model(boxer, opponent, model_key, rounds, stream) ==
    IF _simulate_with_model_error(model_key, rounds) # "" THEN NoResult
    ELSE SimulateRounds(boxer, opponent, RulesFightSim[model_key],
                        ScheduledRounds(model_key, rounds), 1, stream, 1,
                        [judge_cards |-> [i \in 1..3 |->
                                             [boxer_points |-> 0, opponent_points |-> 0]],
                         round_log |-> << >>, margins |-> << >>])

(***************************************************************************)
(* The ring run: simulate_amateur_fight and simulate_pro_fight called, up  *)
(* to MaxSimCalls times, on a fixture chosen at the start: the boxer of a  *)
(* career, an opponent, a round count and a random generator, which is a   *)
(* stream of MaxStreamLen draws or none.  A call records the fixture, the  *)
(* result and how many calls of the same function have been made in a row; *)
(* without a generator one call is explored.                               *)
(***************************************************************************)
MaxStreamLen == 4

MaxSimCalls == 2

Draws ==
    {[gauss |-> 20, random |-> 0], [gauss |-> -20, random |-> 999999],
     [gauss |-> 0, random |-> 0]}

Streams == [1..MaxStreamLen -> Draws]

NoRng == << >>

(* randomizer = rng or random.Random(): the streams the randomizer can     *)
(* yield                                                                   *)
Randomizers_fresh(rng) == Streams

Randomizers(rng) == IF rng = NoRng THEN Streams ELSE {rng}

(* an opponent with the boxer's stats moved by shift, and a record of wins *)
SparringPartner(boxer, shift, fights) ==
    [name |-> "Alex Cruz",
     stats |-> [s \in StatNames |-> Max(MIN_STAT, Min(MAX_STAT, boxer.stats[s] + shift))],
     record |-> [CareerRecord EXCEPT !.wins = fights]]

SimOpponents(boxer) == {SparringPartner(boxer, 0, 0), SparringPartner(boxer, -20, 3)}

SimRounds == {NoRounds, 0, 1, 2}

SimBoxers == {CareerState} \cup RankedProspect

SimOps == {"simulate_amateur_fight", "simulate_pro_fight"}

SimInit ==
    /\ state \in SimBoxers
    /\ \E opponent \in SimOpponents(state.boxer), rounds \in SimRounds,
          rng \in Streams \cup {NoRng} :
         last = [Returned("init", state, state) EXCEPT
                   !.moved = TRUE,
                   !.call = [target |-> "", opponent |-> opponent, rounds |-> rounds,
                             rng |-> rng, run |-> 0, result |-> NoResult]]
    /\ budget = [calls |-> IF last.call.rng = NoRng THEN 1 ELSE MaxSimCalls,
                 amateur_fights |-> 0, pro_fights |-> 0,
                 months |-> 0, retired |-> 0, extras |-> 0]

(* the record of a call: the fixture with the result on the stream, and    *)
(* the count of the calls of the same function in a row                    *)
SimCall(op, model_key, stream) ==
    [op |-> op,
     raised |-> _simulate_with_model_error(model_key, last.call.rounds) # "",
     error |-> _simulate_with_model_error(model_key, last.call.rounds),
     eval |-> NoEval, moved |-> FALSE,
     call |-> [last.call EXCEPT
                 !.run = IF last.op = op THEN @ + 1 ELSE 1,
                 !.result = _simulate_with_model(state.boxer, last.call.opponent,
                                                 model_key, last.call.rounds, stream)]]

(* fight_sim_engine.simulate_amateur_fight(boxer, opponent, rounds, rng) *)
SimulateAmateurFight ==
    /\ budget.calls > 0
    /\ \E stream \in Randomizers(last.call.rng) :
         /\ state' = state
         /\ last' = SimCall("simulate_amateur_fight", "amateur", stream)
         /\ budget' = [budget EXCEPT !.calls = @ - 1]

(* fight_sim_engine.simulate_pro_fight(boxer, opponent, rounds, rng) *)
SimulateProFight ==
    /\ budget.calls > 0
    /\ \E stream \in Randomizers(last.call.rng) :
         /\ state' = state
         /\ last' = SimCall("simulate_pro_fight", "pro", stream)
         /\ budget' = [budget EXCEPT !.calls = @ - 1]

SimNext ==
    \/ SimulateAmateurFight
    \/ SimulateProFight

SimSpec == SimInit /\ [][SimNext]_vars

(***************************************************************************)
(* The defense run: the pro operations on the careers of the ranked        *)
(* prospect of the opening, of one pro fight, and of its lineal champion,  *)
(* of two, who holds the lineal title of the division and no organization  *)
(* title.                                                                  *)
(***************************************************************************)
DefenseInit ==
    /\ state \in RankedProspect \cup LinealChampion
    /\ last = [Returned("init", state, state) EXCEPT !.moved = TRUE]
    /\ budget = [calls |-> MaxTitleCalls, amateur_fights |-> 0,
                 pro_fights |-> MaxProFights,
                 months |-> MaxCareerMonths - state.career_months,
                 retired |-> 0, extras |-> MaxExtras]

DefenseNext ==
    \/ AdvanceMonth
    \/ GenerateProOpponent
    \/ ApplyProFightResult
    \/ ChangeDivision
    \/ SimulateWorldMonth

DefenseSpec == DefenseInit /\ [][DefenseNext]_vars

(***************************************************************************)
(* game.py and gui.py: _advance_month(state, months, rng), the routine the *)
(* menus call after an operation on a career that is not retired.  Each    *)
(* turn of its loop calls advance_month(state, months=1), then             *)
(* simulate_world_month, then evaluate_retirement, and the routine returns *)
(* when the evaluation retires the boxer or the months are through.  The   *)
(* run follows the loop call by call: the record of a call carries the     *)
(* months asked for, the month of the loop the call belongs to, whether    *)
(* the routine has returned after it and the value it returned.            *)
(***************************************************************************)
MaxRequestMonths == 2

RequestMonths == 1..MaxRequestMonths

(* the routine is not running: no request yet, or the last one returned *)
RoutineIdle ==
    \/ last.op = "init"
    \/ (last.op = "evaluate_retirement" /\ last.call.returned)

(* the loop goes into its next month *)
RoutineLoops == last.op = "evaluate_retirement" /\ ~last.call.returned

(* the retirement is not waited for: the loop runs all its months *)
RoutineReturns_unstopped(newly_retired, month, months) == month = months

(* the loop is left after the evaluation of month: by the return of a new  *)
(* retirement, or with the months through                                  *)
RoutineReturns(newly_retired, month, months) == newly_retired \/ month = months

RoutineStep(op, months, month, returned, result) ==
    [op |-> op, raised |-> FALSE, error |-> "", eval |-> NoEval, moved |-> TRUE,
     call |-> [months |-> months, month |-> month,
               returned |-> returned, result |-> result]]

(* the months of the world the routine can meet: any while the extras      *)
(* last, then the quiet ones, where there are any                          *)
WorldMonths(s) ==
    IF ~s.pro_career.is_active THEN {simulate_world_month(s, << >>, << >>)}
    ELSE {simulate_world_month(s, draws, drifts) :
             draws \in WorldDraws(s), drifts \in DriftScripts(s)}

MetWorldMonths(s) ==
    IF budget.extras > 0 \/ s \notin WorldMonths(s) THEN WorldMonths(s) ELSE {s}

(* events = advance_month(state, months=1) *)
ClockStep ==
    /\ \/ /\ RoutineIdle
          /\ ~state.is_retired
          /\ \E months \in RequestMonths :
               /\ months <= budget.months
               /\ last' = RoutineStep("advance_month", months, 1, FALSE, FALSE)
       \/ /\ RoutineLoops
          /\ last' = RoutineStep("advance_month", last.call.months,
                                 last.call.month + 1, FALSE, FALSE)
    /\ state' = advance_month(state, 1)
    /\ budget' = [budget EXCEPT !.months = @ - 1]

(* simulate_world_month(state, rng=randomizer) *)
WorldStep ==
    /\ last.op = "advance_month"
    /\ \E post \in MetWorldMonths(state) :
         /\ state' = post
         /\ budget' = [budget EXCEPT !.extras = IF post # state /\ @ > 0
                                                THEN @ - 1 ELSE @]
    /\ last' = RoutineStep("simulate_world_month", last.call.months,
                           last.call.month, FALSE, FALSE)

(* the routine without its evaluation: the month ends with the world *)
RoutineEvaluation_skipped(s, roll) == StaysActive(s, 0, NoRoll)

(* retirement = evaluate_retirement(state, rng=randomizer) *)
RoutineEvaluation(s, roll) == evaluate_retirement(s, roll)

(* the evaluation of the month, and the return or the next turn of the     *)
(* loop                                                                    *)
RetirementStep ==
    /\ last.op = "simulate_world_month"
    /\ \E roll \in Rolls :
         /\ state' = RoutineEvaluation(state, roll).state
         /\ last' = [RoutineStep("evaluate_retirement", last.call.months,
                                 last.call.month,
                                 RoutineReturns(
                                     RoutineEvaluation(state, roll).eval.newly_retired,
                                     last.call.month, last.call.months),
                                 RoutineEvaluation(state, roll).eval.newly_retired)
                        EXCEPT !.eval = RoutineEvaluation(state, roll).eval]
    /\ budget' = budget

RoutineInit ==
    /\ state \in {CareerState} \cup RankedProspect \cup Champion
    /\ last = [Returned("init", state, state) EXCEPT !.moved = TRUE]
    /\ budget = [calls |-> 0, amateur_fights |-> 0, pro_fights |-> 0,
                 months |-> MaxCareerMonths - state.career_months,
                 retired |-> 0, extras |-> MaxExtras]

RoutineNext ==
    \/ ClockStep
    \/ WorldStep
    \/ RetirementStep

RoutineSpec == RoutineInit /\ [][RoutineNext]_vars

(* The routine on the career that stays amateur, called again and again    *)
(* for as long as the career is open: a step of the routine that stays     *)
(* possible is taken.                                                      *)
AmateurRoutineInit ==
    /\ state = CareerState
    /\ last = [Returned("init", state, state) EXCEPT !.moved = TRUE]
    /\ budget = [calls |-> 0, amateur_fights |-> 0, pro_fights |-> 0,
                 months |-> MaxCareerMonths, retired |-> 0, extras |-> MaxExtras]

RoutineLiveSpec ==
    AmateurRoutineInit /\ [][RoutineNext]_vars /\ WF_vars(RoutineNext)

(***************************************************************************)
(* The properties of the career.                                           *)
(***************************************************************************)
FightOps == {"apply_fight_result", "apply_pro_fight_result"}

(* C1: retirement is write-once.  From a retired career every operation    *)
(* leaves is_retired true and retirement_age and retirement_reason as they *)
(* were, and evaluate_retirement changes nothing and returns               *)
(* newly_retired = false with the stored reason.                           *)
C1_RetirementWriteOnce ==
    [][state.is_retired =>
          /\ state'.is_retired
          /\ state'.retirement_age = state.retirement_age
          /\ state'.retirement_reason = state.retirement_reason
          /\ last'.op = "evaluate_retirement" =>
                 /\ state' = state
                 /\ last'.eval.is_retired
                 /\ ~last'.eval.newly_retired
                 /\ last'.eval.reason = state.retirement_reason]_vars

(* a retired career that evaluate_retirement was called on again *)
C1_Witness ==
    /\ state.is_retired
    /\ last.op = "evaluate_retirement"
    /\ ~last.eval.newly_retired
    /\ last.eval.reason = state.retirement_reason

(* C2: experience_points never decreases under any operation, and every    *)
(* amateur or pro fight that is applied raises it by at least 1.           *)
C2_ExperienceMonotone ==
    [][/\ state'.boxer.experience_points >= state.boxer.experience_points
       /\ (last'.op \in FightOps /\ ~last'.raised) =>
              state'.boxer.experience_points >= state.boxer.experience_points + 1]_vars

(* a lost pro fight applied on top of the experience of the amateur fights *)
C2_Witness ==
    /\ last.op = "apply_pro_fight_result"
    /\ ~last.raised
    /\ last.call.result.winner \notin {BoxerName, DrawName}
    /\ state.boxer.experience_points > 0

(* C3: after a fight application, a training, a camp, a rest month, a      *)
(* medical recovery or a division change on a state whose fatigue is in    *)
(* 0..12 and whose injury risk is in 0..100, both are in range again.      *)
WearOps ==
    {"apply_fight_result", "apply_pro_fight_result", "apply_standard_training",
     "special_training_camp", "apply_rest_month", "medical_recovery", "change_division"}

WearInRange(s) ==
    /\ s.boxer.fatigue \in 0..MAX_FATIGUE
    /\ s.boxer.injury_risk \in 0..MAX_INJURY_RISK

C3_WearInRange ==
    [][(WearInRange(state) /\ last'.op \in WearOps) => WearInRange(state')]_vars

(* a division change that ends at the cap of the fatigue *)
C3_Witness ==
    /\ last.op = "change_division"
    /\ ~last.raised
    /\ state.boxer.fatigue = MAX_FATIGUE

(* C4: the rank the boxer holds in every organization is None or within    *)
(* 1..ranking_slots of the organization after every sequence of pro        *)
(* fights, division changes and months of the world, and a win of a boxer  *)
(* ranked #1 leaves the boxer ranked #1.                                   *)
RanksInRange(s) ==
    \A o \in OrgNames :
        \/ s.pro_career.rankings[o] = NoRank
        \/ s.pro_career.rankings[o] \in 1.._ranking_slots(o)

C4_RanksInRange ==
    /\ [](state.pro_career.is_active => RanksInRange(state))
    /\ [][(/\ last'.op = "apply_pro_fight_result"
           /\ ~last'.raised
           /\ last'.call.result.winner = BoxerName) =>
              \A o \in OrgNames :
                  state.pro_career.rankings[o] = 1 => state'.pro_career.rankings[o] = 1]_vars

(* a win of a boxer the focus organization ranked #1 before the fight *)
C4_Witness ==
    /\ last.op = "apply_pro_fight_result"
    /\ ~last.raised
    /\ last.call.result.winner = BoxerName
    /\ last.call.rankings_before[state.pro_career.organization_focus] = 1
    /\ state.pro_career.rankings[state.pro_career.organization_focus] = 1

(* C5: when the lineal title of the boxer's division is vacant as          *)
(* apply_pro_fight_result is called, the boxer is lineal champion after it *)
(* only if the boxer won and the boxer's focus rank before the fight and   *)
(* the opponent's ranking position are 1 and 2, or 1 and 3.                *)
C5_VacantTitleNeedsPairing ==
    [][(/\ last'.op = "apply_pro_fight_result"
        /\ ~last'.raised
        /\ state.pro_career.lineal_champions[state.boxer.division] = NoName
        /\ state'.pro_career.lineal_champions[state.boxer.division] = BoxerName) =>
           /\ last'.call.result.winner = BoxerName
           /\ _vacancy_fight_is_valid(
                  state.pro_career.rankings[state.pro_career.organization_focus],
                  last'.call.opponent.ranking_position)]_vars

(* C6: apply_fight_result and apply_pro_fight_result are all-or-nothing.   *)
(* A call that raises leaves the CareerState as it was; a call that        *)
(* returns has appended the fight to the history.                          *)
C6_FightsAllOrNothing ==
    [][last'.op \in FightOps =>
          IF last'.raised THEN state' = state
          ELSE Len(state'.history) = Len(state.history) + 1]_vars

(* C7: on a retired career generate_opponent, apply_fight_result,          *)
(* generate_pro_opponent and apply_pro_fight_result raise and leave the    *)
(* CareerState as it was.                                                  *)
C7_RetiredCannotFight ==
    [][(/\ state.is_retired
        /\ last'.op \in FightOps \cup {"generate_opponent", "generate_pro_opponent"}) =>
           (last'.raised /\ state' = state)]_vars

(* C8: turn_pro returns exactly when the career is not pro, the boxer is   *)
(* not retired and age, amateur fights and amateur points reach their      *)
(* minimums; otherwise it raises and the CareerState is as it was, and on  *)
(* a pro career the error is "already pro".                                *)
TurnProAllowed(s) ==
    /\ ~s.pro_career.is_active
    /\ ~s.is_retired
    /\ s.boxer.age >= RulesAmateurProgression.pro_readiness.min_age
    /\ s.amateur_progress.fights_taken >= RulesAmateurProgression.pro_readiness.min_fights
    /\ s.boxer.amateur_points >= RulesAmateurProgression.pro_readiness.min_points

C8_TurnProGuarded ==
    [][last'.op = "turn_pro" =>
          /\ ~last'.raised <=> TurnProAllowed(state)
          /\ last'.raised => state' = state
          /\ state.pro_career.is_active => last'.error = "already pro"]_vars

(* a second turn_pro, rejected on a career with a pro fight on its record *)
C8_Witness ==
    /\ last.op = "turn_pro"
    /\ last.error = "already pro"
    /\ _total_pro_fights(state) > 0

(* C9: change_division returns exactly when the career is pro and the      *)
(* target, stripped and lowered as the code reads it, is one of            *)
(* available_division_moves; otherwise it raises and the CareerState is    *)
(* as it was.                                                              *)
C9_ChangeDivisionAdjacent ==
    [][last'.op = "change_division" =>
          /\ ~last'.raised <=>
                 (/\ state.pro_career.is_active
                  /\ StripLower(last'.call.target) \in available_division_moves(state))
          /\ last'.raised => state' = state]_vars

(* a target two divisions away, rejected *)
C9_Witness ==
    /\ last.op = "change_division"
    /\ last.error = "one division at a time"

(* C10: on a pro career pro mode stays active, generate_opponent and       *)
(* apply_fight_result raise and leave the CareerState as it was, and the   *)
(* amateur record, the amateur points, fights_taken and the amateur tier   *)
(* never change.                                                           *)
C10_AmateurFrozen ==
    [][state.pro_career.is_active =>
          /\ state'.pro_career.is_active
          /\ state'.boxer.record = state.boxer.record
          /\ state'.boxer.amateur_points = state.boxer.amateur_points
          /\ state'.amateur_progress = state.amateur_progress
          /\ last'.op \in {"generate_opponent", "apply_fight_result"} =>
                 (last'.raised /\ state' = state)]_vars

(* an amateur fight application rejected after a pro fight *)
C10_Witness ==
    /\ last.op = "apply_fight_result"
    /\ last.raised
    /\ _total_pro_fights(state) > 0

(* C11: special_training_camp, medical_recovery and purchase_staff_upgrade *)
(* called with a purse_balance below the cost raise and leave the whole    *)
(* CareerState as it was.                                                  *)
SpendingOps == {"special_training_camp", "medical_recovery", "purchase_staff_upgrade"}

CheapestCost(op) ==
    IF op = "special_training_camp" THEN RulesProSpending.special_camp.cost
    ELSE IF op = "medical_recovery" THEN RulesProSpending.medical_recovery.cost
    ELSE RulesProSpending.staff_upgrades["elite_coach"].cost_by_level[1]

C11_UnaffordableSpendingRejected ==
    [][(/\ last'.op \in SpendingOps
        /\ \/ state.pro_career.purse_balance < CheapestCost(last'.op)
           \/ last'.error = "insufficient purse balance") =>
           (last'.raised /\ state' = state)]_vars

(* C12: on a boxer who is not retired and whose age is at or above the     *)
(* hard age cap, evaluate_retirement returns is_retired, newly_retired and *)
(* forced with chance 1.0 and no roll, whatever the random stream holds,   *)
(* and marks the state retired with the current age as retirement_age.     *)
C12_ForcedAtAgeCap ==
    [][(/\ last'.op = "evaluate_retirement"
        /\ ~state.is_retired
        /\ state.boxer.age >= RulesRetirementModel.hard_age_cap) =>
           /\ last'.eval.is_retired
           /\ last'.eval.newly_retired
           /\ last'.eval.forced
           /\ last'.eval.chance = 1000
           /\ last'.eval.roll = NoRoll
           /\ state'.is_retired
           /\ state'.retirement_age = state.boxer.age
           /\ \A roll \in Rolls : evaluate_retirement(state, roll).state = state']_vars

(* a boxer retired by the cap, at the age of the cap *)
C12_Witness ==
    /\ last.op = "evaluate_retirement"
    /\ last.eval.forced
    /\ last.eval.newly_retired
    /\ state.is_retired
    /\ state.retirement_age = state.boxer.age
    /\ state.boxer.age >= RulesRetirementModel.hard_age_cap

(* C13: the backfill is idempotent.  After ensure_rankings on a pro career *)
(* every organization has a rank entry and every division and every        *)
(* organization and division a champion entry, a second call changes       *)
(* nothing, and no entry that was present (a rank, a champion, a vacant    *)
(* title) is overwritten by any of the three backfill functions.           *)
BackfillOps == {"ensure_rankings", "ensure_lineal_titles", "ensure_organization_titles"}

LedgerFilled(s) ==
    /\ \A o \in OrgNames : s.pro_career.rankings[o] # AbsentRank
    /\ \A d \in DivisionNames :
          /\ s.pro_career.lineal_champions[d] # AbsentName
          /\ s.pro_career.lineal_defenses[d] # AbsentRank
    /\ \A o \in OrgNames, d \in DivisionNames :
          /\ s.pro_career.organization_champions[o][d] # AbsentName
          /\ s.pro_career.organization_defenses[o][d] # AbsentRank

LedgerKept(pre, post) ==
    /\ \A o \in OrgNames :
          pre.pro_career.rankings[o] # AbsentRank =>
              post.pro_career.rankings[o] = pre.pro_career.rankings[o]
    /\ \A d \in DivisionNames :
          /\ pre.pro_career.lineal_champions[d] # AbsentName =>
                 post.pro_career.lineal_champions[d] = pre.pro_career.lineal_champions[d]
          /\ pre.pro_career.lineal_defenses[d] # AbsentRank =>
                 post.pro_career.lineal_defenses[d] = pre.pro_career.lineal_defenses[d]
    /\ \A o \in OrgNames, d \in DivisionNames :
          /\ pre.pro_career.organization_champions[o][d] # AbsentName =>
                 post.pro_career.organization_champions[o][d] =
                     pre.pro_career.organization_champions[o][d]
          /\ pre.pro_career.organization_defenses[o][d] # AbsentRank =>
                 post.pro_career.organization_defenses[o][d] =
                     pre.pro_career.organization_defenses[o][d]

C13_BackfillIdempotent ==
    [][(last'.op \in BackfillOps /\ state.pro_career.is_active) =>
          /\ LedgerKept(state, state')
          /\ last'.op = "ensure_rankings" =>
                 /\ LedgerFilled(state')
                 /\ ensure_rankings(state') = state'
                 /\ LedgerFilled(state) => state' = state]_vars

(* a ledger ensure_rankings filled in around a lineal title that is vacant *)
C13_Witness ==
    /\ last.op = "ensure_rankings"
    /\ last.moved
    /\ LedgerFilled(state)
    /\ state.pro_career.lineal_champions[state.boxer.division] = NoName

(* C14: every CareerState the operations reach is what from_dict reads     *)
(* back from its to_dict, field for field; so are the careers of the title *)
(* run, with their titles won and vacated, and the aging profiles          *)
(* generate_aging_profile can return.                                      *)
GeneratedAgingProfiles ==
    {[peak_age |-> p, decline_onset_age |-> Min(40, p + k),
      decline_severity |-> v, iq_growth_factor |-> g] :
        p \in 24..34, k \in 1..3, v \in {70, 100, 140}, g \in {75, 100, 135}}

(* the careers of the title run and the generated profiles are read back   *)
(* once, at the start of the career                                        *)
TitleCareers == RankedProspect \cup Champion \cup ReturnedBoxer

C14_SaveRoundTrip ==
    /\ CareerState_from_dict(CareerState_to_dict(state)) = state
    /\ last.op = "init" =>
           /\ \A s \in TitleCareers : CareerState_from_dict(CareerState_to_dict(s)) = s
           /\ \A profile \in GeneratedAgingProfiles \cup {AgingProfile} :
                  AgingProfile_from_dict(profile) = profile

(* a retired pro with a staff dict and a fight on the record, saved and    *)
(* loaded                                                                  *)
C14_Witness ==
    /\ state.is_retired
    /\ state.pro_career.is_active
    /\ state.retirement_age # NoAge
    /\ state.pro_career.staff_levels["elite_coach"] # AbsentLevel
    /\ Len(state.history) > 0
    /\ CareerState_from_dict(CareerState_to_dict(state)) = state

(* the rank updates of a history entry name the organization *)
RankUpdated(organization_name, notes) ==
    \E i \in 1..Len(notes.ranks) : notes.ranks[i][1] = organization_name

ExcludingSanctioningPolicy ==
    [RulesSanctioningPolicy EXCEPT !.include_focus_org_always = FALSE,
                                   !.cross_body_top_window_prob = 0,
                                   !.cross_body_elite_prob = 0,
                                   !.cross_body_rank_gap_prob = 0,
                                   !.cross_body_single_top10_prob = 0]

(* no organization's title of the current division is at stake *)
NoTitleFight(s, opponent) ==
    \A o \in OrgNames :
        organization_division_champion(s, o, s.boxer.division) \notin {BoxerName, opponent.name}

(* C16: when the sanctioning policy sets include_focus_org_always to false *)
(* and every cross-body probability to 0, and the bout is a title fight    *)
(* for no organization, determine_sanctioning_bodies returns an empty      *)
(* list, so the focus organization is not among the sanctioning bodies.    *)
C16_ExcludedFocusGivesNoBodies ==
    [][(/\ last'.op = "apply_pro_fight_result"
        /\ state.pro_career.is_active
        /\ NoTitleFight(ensure_rankings(state), last'.call.opponent)) =>
           \A bodies \in SanctioningBodiesUnder(ExcludingSanctioningPolicy,
                                                ensure_rankings(state),
                                                last'.call.opponent) :
               /\ bodies = {}
               /\ ensure_rankings(state).pro_career.organization_focus \notin bodies]_vars

(* the sanctioning bodies of the bout on record in last *)
SanctionedIn(record, focus_org) ==
    _normalized_sanctioning_bodies(record.call.purse, focus_org)

(* C17: apply_pro_fight_result updates the player's rank in every          *)
(* sanctioning body of the bout and in no other organization.  Every       *)
(* sanctioning body has a rank update; after a win each sanctioning body   *)
(* in which the player was ranked below #1 shows a strictly better rank;   *)
(* and the rank stored for every other organization is unchanged.          *)
C17_RanksMoveInSanctioningBodiesOnly ==
    [][(last'.op = "apply_pro_fight_result" /\ ~last'.raised) =>
           \A o \in OrgNames :
               IF SeqContains(SanctionedIn(last', ensure_rankings(state).pro_career
                                                      .organization_focus), o)
               THEN /\ RankUpdated(o, state'.history[Len(state'.history)].notes)
                    /\ (/\ last'.call.result.winner = BoxerName
                        /\ last'.call.rankings_before[o] > 1) =>
                           state'.pro_career.rankings[o] \in
                               1..(last'.call.rankings_before[o] - 1)
               ELSE state'.pro_career.rankings[o] = last'.call.rankings_before[o]]_vars

(* a win in a bout one organization sanctions and another does not, the    *)
(* player ranked below #1 by the first before it and better after it       *)
C17_Witness ==
    /\ last.op = "apply_pro_fight_result"
    /\ ~last.raised
    /\ last.call.result.winner = BoxerName
    /\ \E o \in OrgNames :
          /\ SeqContains(SanctionedIn(last, state.pro_career.organization_focus), o)
          /\ last.call.rankings_before[o] > 1
          /\ state.pro_career.rankings[o] < last.call.rankings_before[o]
    /\ \E o \in OrgNames :
          /\ ~SeqContains(SanctionedIn(last, state.pro_career.organization_focus), o)
          /\ last.call.rankings_before[o] # NoRank
          /\ state.pro_career.rankings[o] = last.call.rankings_before[o]

(* C18: if the player holds an organization's title in the current         *)
(* division and is ranked #1 by that organization, then after              *)
(* apply_pro_fight_result applies a draw in a bout sanctioned by that      *)
(* organization the player still holds the title and is still ranked #1    *)
(* by it.                                                                  *)
C18_ChampionKeepsTopRankOnDraw ==
    [][(/\ last'.op = "apply_pro_fight_result"
        /\ ~last'.raised
        /\ last'.call.result.winner = DrawName) =>
           \A o \in OrgNames :
               (/\ organization_division_champion(ensure_rankings(state), o,
                                                  state.boxer.division) = BoxerName
                /\ last'.call.rankings_before[o] = 1
                /\ SeqContains(SanctionedIn(last', ensure_rankings(state).pro_career
                                                       .organization_focus), o)) =>
                   /\ organization_division_champion(state', o, state'.boxer.division)
                          = BoxerName
                   /\ state'.pro_career.rankings[o] = 1]_vars

(* every row of the player in a rankings table has the rank *)
PlayerRowsAt(rows, rank) ==
    /\ \E i \in 1..Len(rows) : rows[i].is_player
    /\ \A i \in 1..Len(rows) : rows[i].is_player => rows[i].rank = rank

(* C19: rankings_snapshot for an organization puts that organization's     *)
(* current-division champion in the rank-1 row.  If the player is the      *)
(* champion, the player's row has rank 1 and the stored rank becomes 1     *)
(* whatever it was before; if the player is stored at rank 1 but another   *)
(* fighter is the champion, the first row is that champion and the         *)
(* player's row and stored rank become 2.                                  *)
C19_SnapshotPutsChampionFirst ==
    [][(last'.op = "rankings_snapshot" /\ ~last'.raised) =>
           /\ organization_division_champion(state, last'.call.target,
                                             state.boxer.division) = BoxerName =>
                  /\ PlayerRowsAt(last'.call.rows, 1)
                  /\ state'.pro_career.rankings[last'.call.target] = 1
           /\ (/\ last'.call.rankings_before[last'.call.target] = 1
               /\ organization_division_champion(state, last'.call.target,
                                                 state.boxer.division)
                      \notin {BoxerName, NoName}) =>
                  /\ last'.call.rows[1].name =
                         organization_division_champion(state, last'.call.target,
                                                        state.boxer.division)
                  /\ PlayerRowsAt(last'.call.rows, 2)
                  /\ state'.pro_career.rankings[last'.call.target] = 2]_vars

(* the challengers a vacant title is filled from *)
SeededChallengers == {_seed_name("vacA"), _seed_name("vacB")}

(* the divisions a policy simulates: all of them, or only the player's *)
PolicyDivisions(s, policy) ==
    IF policy.simulate_all_divisions THEN DivisionNames ELSE {s.boxer.division}

(* C20: after simulate_world_month on an active pro state, no organization *)
(* title is vacant in any division the policy simulates (all divisions, or *)
(* only the player's): every title that was vacant at the start of the     *)
(* month now has a seeded non-player champion with defense count 0.        *)
C20_WorldMonthFillsVacantTitles ==
    [][(last'.op = "simulate_world_month" /\ state.pro_career.is_active) =>
           \A d \in PolicyDivisions(state, last'.call.policy), o \in OrgNames :
               /\ state'.pro_career.organization_champions[o][d] # NoName
               /\ last'.call.champions_before[o][d] = NoName =>
                      /\ state'.pro_career.organization_champions[o][d]
                             \in SeededChallengers \ {BoxerName}
                      /\ state'.pro_career.organization_defenses[o][d] = 0]_vars

(* the titles the player holds, each with its count of defenses *)
HeldTitles(s) ==
    {<<p[1], p[2], s.pro_career.organization_defenses[p[1]][p[2]]>> :
        p \in {q \in OrgNames \X DivisionNames :
                  s.pro_career.organization_champions[q[1]][q[2]] = BoxerName}}
    \cup {<<"lineal", d, s.pro_career.lineal_defenses[d]>> :
             d \in {div \in DivisionNames :
                       s.pro_career.lineal_champions[div] = BoxerName}}

C22_WorldMonthPinsChampion ==
    (last.op = "simulate_world_month" /\ ~last.raised /\ state.pro_career.is_active) =>
        \A o \in OrgNames :
            state.pro_career.organization_champions[o][state.boxer.division] = BoxerName =>
                state.pro_career.rankings[o] = 1

(* C23: simulate_world_month changes none of the player's rankings when it *)
(* runs in the career month of the player's last fight, whatever the       *)
(* random stream draws.                                                    *)
C23_NoDriftInFightMonth ==
    [][(/\ last'.op = "simulate_world_month"
        /\ state.career_months = state.pro_career.last_player_fight_month)
           => state'.pro_career.rankings = state.pro_career.rankings]_vars

(* a world month in the month of the fight of a ranked player who holds no *)
(* title, with another champion dethroned                                  *)
C23_Witness ==
    /\ last.op = "simulate_world_month"
    /\ ~last.raised
    /\ state.career_months = state.pro_career.last_player_fight_month
    /\ \E o \in OrgNames :
           /\ state.pro_career.rankings[o] > 1
           /\ state.pro_career.organization_champions[o][state.boxer.division]
                  = _seed_name("ch")

(* the balance within the earnings *)
PurseSound(s) ==
    /\ s.pro_career.purse_balance >= 0
    /\ s.pro_career.purse_balance <= s.pro_career.total_earnings

(* the balance lowered by the cost, the earnings as they were *)
Charged(pre, post, cost) ==
    /\ post.pro_career.purse_balance = pre.pro_career.purse_balance - cost
    /\ post.pro_career.total_earnings = pre.pro_career.total_earnings

(* C24: in an active pro career purse_balance is never negative and never  *)
(* above total_earnings: every call that returns keeps the balance within  *)
(* the earnings; turn_pro sets both to the signing bonus, a pro fight      *)
(* applied with a purse of offer_purse adds the purse's net to the balance *)
(* and its gross to the earnings, and a camp, a medical recovery or a      *)
(* staff upgrade lowers the balance by its cost and nothing else of the    *)
(* two.                                                                    *)
C24_BalanceWithinEarnings ==
    [][~last'.raised =>
        /\ (/\ state'.pro_career.is_active
            /\ state.pro_career.is_active => PurseSound(state)) => PurseSound(state')
        /\ last'.op = "turn_pro" =>
             /\ state'.pro_career.purse_balance \in SigningBonuses
             /\ state'.pro_career.total_earnings = state'.pro_career.purse_balance
        /\ last'.op = "apply_pro_fight_result" =>
             /\ state'.pro_career.purse_balance
                    = state.pro_career.purse_balance + last'.call.purse.net
             /\ state'.pro_career.total_earnings
                    = state.pro_career.total_earnings + last'.call.purse.gross
        /\ last'.op = "special_training_camp" =>
             Charged(state, state', RulesProSpending.special_camp.cost)
        /\ last'.op = "medical_recovery" =>
             Charged(state, state', RulesProSpending.medical_recovery.cost)
        /\ last'.op = "purchase_staff_upgrade" =>
             \E staff_key \in StaffKeys :
                 /\ state'.pro_career.staff_levels[staff_key]
                        = _staff_level(state, staff_key).value + 1
                 /\ Charged(state, state',
                            RulesProSpending.staff_upgrades[staff_key].cost_by_level[
                                _staff_level(state, staff_key).value + 1])]_vars

(* a purchase paid out of the purse of an applied pro fight *)
C24_Witness ==
    /\ last.op \in SpendingOps
    /\ ~last.raised
    /\ state.pro_career.total_earnings > RulesTurnPro.signing_bonus_max
    /\ state.pro_career.purse_balance >= 0
    /\ state.pro_career.purse_balance < state.pro_career.total_earnings

(* the pro career a successful turn_pro leaves, but for the title boards *)
FreshProCareer(s) ==
    LET pro == s.pro_career
    IN  /\ pro.is_active
        /\ pro.record = CareerRecord
        /\ \A o \in OrgNames : pro.rankings[o] = NoRank
        /\ pro.purse_balance = pro.total_earnings
        /\ pro.purse_balance \in RulesTurnPro.signing_bonus_min..RulesTurnPro.signing_bonus_max
        /\ pro.division_changes = 0
        /\ pro.divisions_fought = << s.boxer.division >>
        /\ pro.last_player_fight_month = s.career_months

(* every title of the boards held by someone other than the boxer *)
SeededWithOthers(pro, name) ==
    /\ \A d \in DivisionNames : pro.lineal_champions[d] \notin {NoName, AbsentName, name}
    /\ \A o \in OrgNames, d \in DivisionNames :
           pro.organization_champions[o][d] \notin {NoName, AbsentName, name}

(* C25: a successful turn_pro leaves a fresh active ProCareer: record      *)
(* 0-0-0, every organization unranked, purse_balance and total_earnings    *)
(* equal to a signing bonus of the configured range, no division change,   *)
(* the current division as the only division fought,                       *)
(* last_player_fight_month at career_months, and title boards seeded with  *)
(* champions other than the player; the amateur record, points, experience *)
(* and history are as before.                                              *)
C25_TurnProStartsFresh ==
    [][(last'.op = "turn_pro" /\ ~last'.raised) =>
          /\ FreshProCareer(state')
          /\ SeededWithOthers(state'.pro_career, last'.call.name)
          /\ state'.boxer.record = state.boxer.record
          /\ state'.boxer.amateur_points = state.boxer.amateur_points
          /\ state'.boxer.experience_points = state.boxer.experience_points
          /\ state'.amateur_progress = state.amateur_progress
          /\ state'.history = state.history]_vars

(* C26: advance_month(state, n) with n >= 0 adds n to career_months, keeps *)
(* month within 1..12, adds a year exactly for each wrap of month from 12  *)
(* to 1 and a year of age exactly for each month in which career_months    *)
(* becomes a multiple of 12, so that age is the starting age plus          *)
(* career_months div 12; a negative n raises and leaves the state as it    *)
(* was.                                                                    *)
C26_ClockAdvancesExactly ==
    [][last'.op = "advance_month" =>
          IF last'.call.months < 0
          THEN last'.raised /\ state' = state
          ELSE /\ ~last'.raised
               /\ state'.career_months = state.career_months + last'.call.months
               /\ state'.month \in 1..12
               /\ state'.month = ((state.month - 1 + last'.call.months) % 12) + 1
               /\ state'.year = state.year + ((state.month - 1 + last'.call.months) \div 12)
               /\ state'.boxer.age = state.boxer.age + (state'.career_months \div 12)
                                                     - (state.career_months \div 12)
               /\ state'.boxer.age = STARTING_AGE + (state'.career_months \div 12)]_vars

(* a span that ended past a birthday and past the turn of the year, taken  *)
(* in the middle of a year                                                 *)
C26_Witness ==
    /\ last.op = "advance_month"
    /\ ~last.raised
    /\ last.call.months = 13
    /\ state.month = 7
    /\ state.year = 2
    /\ state.boxer.age = STARTING_AGE + 1

C28_AgeWeightProfileFrame ==
    [][/\ last'.op # "advance_month" => state'.boxer.age = state.boxer.age
       /\ last'.op # "change_division" =>
              state'.boxer.weight_lbs = state.boxer.weight_lbs
       /\ state'.boxer.aging_profile = state.boxer.aging_profile]_vars

(* a call on a boxer a birthday older and a division away from the start   *)
C28_Witness ==
    /\ last.op \notin {"init", "advance_month", "change_division"}
    /\ last.moved
    /\ state.boxer.age > STARTING_AGE
    /\ state.boxer.weight_lbs # PlayerWeightLbs
    /\ state.boxer.aging_profile = AgingProfile

(* C29: for a boxer who is not retired, is younger than the hard age cap   *)
(* and whose age lies in no age band with a positive base chance,          *)
(* retirement_chance is 0 whatever the record, the losing streak, the      *)
(* injury risk or the fatigue, and evaluate_retirement draws no roll and   *)
(* leaves the boxer unretired.                                             *)
C29_NoChanceOutsideAgeBands ==
    [][(/\ last'.op = "evaluate_retirement"
        /\ ~state.is_retired
        /\ state.boxer.age < RulesRetirementModel.hard_age_cap
        /\ \A i \in DOMAIN RulesRetirementModel.age_bands :
              LET band == RulesRetirementModel.age_bands[i]
              IN  (band.min_age <= state.boxer.age /\ state.boxer.age <= band.max_age)
                      => band.base_chance <= 0)
       => /\ retirement_chance(state) = 0
          /\ last'.eval.chance = 0
          /\ last'.eval.roll = NoRoll
          /\ ~last'.eval.is_retired
          /\ ~last'.eval.newly_retired
          /\ ~last'.eval.forced
          /\ state' = state
          /\ \A roll \in Rolls : evaluate_retirement(state, roll).state = state]_vars

C29_Witness ==
    /\ last.op = "evaluate_retirement"
    /\ ~state.is_retired
    /\ state.boxer.age < RulesRetirementModel.hard_age_cap
    /\ _base_age_chance(state.boxer.age) = 0
    /\ last.eval.chance = 0
    /\ last.eval.roll = NoRoll
    /\ state.boxer.record.losses >= RulesRetirementModel.performance.sample_fights_min
    /\ state.boxer.fatigue > RulesRetirementModel.performance.fatigue_threshold

(* C30: the presentation queries are read-only.  A call of current_tier,   *)
(* pro_readiness_status, rankings_snapshot, pound_for_pound_snapshot,      *)
(* list_staff_upgrade_options or offer_purse, on any career and on one     *)
(* that has just turned pro, leaves every field of the state as it was.    *)
C30_QueriesReadOnly ==
    [][last'.op \in QueryOps => state' = state]_vars

SimModelKey(op) == IF op = "simulate_amateur_fight" THEN "amateur" ELSE "pro"

OneLinePerRound(result, rounds) ==
    /\ Len(result.round_log) = rounds
    /\ \A i \in DOMAIN result.round_log : result.round_log[i].round = i

IsStoppage(result, scheduled, opponent_name, threshold) ==
    /\ result.method = "TKO"
    /\ result.rounds_completed \in 1..scheduled
    /\ result.scorecards = << >>
    /\ OneLinePerRound(result, result.rounds_completed)
    /\ result.round_log[result.rounds_completed].stoppage
    /\ Len(result.margins) = result.rounds_completed
    /\ \/ /\ result.winner = BoxerName
          /\ result.margins[result.rounds_completed] > threshold
       \/ /\ result.winner = opponent_name
          /\ result.margins[result.rounds_completed] < -threshold

IsDecision(result, scheduled) ==
    /\ result.method \in {"UD", "MD", "SD", "DRAW"}
    /\ result.rounds_completed = scheduled
    /\ Len(result.scorecards) = 3
    /\ OneLinePerRound(result, scheduled)

(* C39: a fight simulation with a round count below 1 is rejected; with    *)
(* one round or more it returns either a stoppage, by TKO, won by the      *)
(* fighter whose margin of the round was beyond the stoppage threshold,    *)
(* with rounds_completed the round of the stoppage (at most the scheduled  *)
(* rounds), no scorecards and one log line per round fought, or a decision *)
(* with rounds_completed the scheduled rounds, three scorecards and one    *)
(* log line per scheduled round.                                           *)
C39_SimulationEndsWithinRounds ==
    last.op \in SimOps =>
        IF ScheduledRounds(SimModelKey(last.op), last.call.rounds) < 1
        THEN /\ last.raised
             /\ last.error = "rounds must be >= 1"
             /\ last.call.result = NoResult
        ELSE /\ ~last.raised
             /\ \/ IsStoppage(last.call.result,
                              ScheduledRounds(SimModelKey(last.op), last.call.rounds),
                              last.call.opponent.name,
                              RulesFightSim[SimModelKey(last.op)].stoppage_margin_threshold)
                \/ IsDecision(last.call.result,
                              ScheduledRounds(SimModelKey(last.op), last.call.rounds))

C39_Witness ==
    /\ last.op \in SimOps
    /\ ~last.raised
    /\ last.call.result.method = "TKO"
    /\ last.call.result.rounds_completed = 2
    /\ last.call.result.winner = last.call.opponent.name
    /\ ScheduledRounds(SimModelKey(last.op), last.call.rounds) > 2

(* the judges who have the boxer ahead, the opponent ahead or the fight    *)
(* level on the scorecards of a result                                     *)
CardsFor(result, side) ==
    Cardinality({i \in DOMAIN result.scorecards :
        CASE side = "boxer" -> result.scorecards[i][1] > result.scorecards[i][2]
          [] side = "opponent" -> result.scorecards[i][2] > result.scorecards[i][1]
          [] OTHER -> result.scorecards[i][1] = result.scorecards[i][2]})

CardsForWinner(result) ==
    IF result.winner = BoxerName THEN CardsFor(result, "boxer")
    ELSE CardsFor(result, "opponent")

CardsForLoser(result) ==
    IF result.winner = BoxerName THEN CardsFor(result, "opponent")
    ELSE CardsFor(result, "boxer")

IsDecided(call) ==
    /\ call.op \in SimOps
    /\ ~call.raised
    /\ call.call.result.method # "TKO"

(* C40: on a decision the winner is the fighter ahead on more of the three *)
(* cards, Draw when both are ahead on equally many; the method is DRAW     *)
(* exactly when the winner is Draw, UD exactly when all three judges have  *)
(* the winner ahead, MD exactly when two have the winner ahead and the     *)
(* third has the fight level, SD exactly when two have the winner ahead    *)
(* and the third has the loser ahead.                                      *)
C40_DecisionLabels ==
    IsDecided(last) =>
        LET result == last.call.result
            decided == result.winner # DrawName
        IN  /\ result.winner = BoxerName
                 <=> CardsFor(result, "boxer") > CardsFor(result, "opponent")
            /\ result.winner = last.call.opponent.name
                 <=> CardsFor(result, "opponent") > CardsFor(result, "boxer")
            /\ result.winner = DrawName
                 <=> CardsFor(result, "boxer") = CardsFor(result, "opponent")
            /\ result.method = "DRAW" <=> ~decided
            /\ result.method = "UD" <=> (decided /\ CardsForWinner(result) = 3)
            /\ result.method = "MD"
                 <=> (decided /\ CardsForWinner(result) = 2 /\ CardsFor(result, "draw") = 1)
            /\ result.method = "SD"
                 <=> (decided /\ CardsForWinner(result) = 2 /\ CardsForLoser(result) = 1)

(* the player is the stored lineal champion of the division the boxer is in *)
PlayerIsLineal(s) ==
    /\ s.pro_career.is_active
    /\ s.pro_career.lineal_champions[s.boxer.division] = BoxerName

(* C32: while the player is the stored lineal champion of the current      *)
(* division, apply_pro_fight_result keeps the player as lineal champion    *)
(* after a win, with one defense more, and after a draw, with the count    *)
(* unchanged, and gives the title to the opponent, with the count at 0,    *)
(* only when the opponent wins; and apart from change_division no other    *)
(* operation takes the lineal title from the player.                       *)
C32_LinealChampionKeepsTitle ==
    [][PlayerIsLineal(state) =>
          LET division == state.boxer.division
              champion == state'.pro_career.lineal_champions[division]
              defenses == state'.pro_career.lineal_defenses[division]
              before == state.pro_career.lineal_defenses[division]
          IN  /\ (last'.op = "apply_pro_fight_result" /\ ~last'.raised) =>
                    /\ last'.call.result.winner = BoxerName =>
                          (champion = BoxerName /\ defenses = before + 1)
                    /\ last'.call.result.winner = DrawName =>
                          (champion = BoxerName /\ defenses = before)
                    /\ last'.call.result.winner = last'.call.opponent.name =>
                          (champion = last'.call.opponent.name /\ defenses = 0)
              /\ (last'.op \notin {"apply_pro_fight_result", "change_division"}
                     \/ last'.raised) =>
                    (champion = BoxerName /\ defenses = before)]_vars

(***************************************************************************)
(* change_division: what a successful change leaves                        *)
(***************************************************************************)
NoDuplicates(seq) == \A i, j \in 1..Len(seq) : seq[i] = seq[j] => i = j

(* the boxer of t in the target division at the top weight of its class *)
MovedTo(t, target) ==
    /\ t.boxer.division = target
    /\ t.boxer.weight_lbs = _weight_class_by_name(target).max_lbs

(* every title the boxer of s held in the division left is vacant in t *)
OldTitlesVacated(s, t) ==
    /\ s.pro_career.lineal_champions[s.boxer.division] = BoxerName
         => /\ t.pro_career.lineal_champions[s.boxer.division] = NoName
            /\ t.pro_career.lineal_defenses[s.boxer.division] = 0
    /\ \A o \in OrgNames :
         s.pro_career.organization_champions[o][s.boxer.division] = BoxerName
         => /\ t.pro_career.organization_champions[o][s.boxer.division] = NoName
            /\ t.pro_career.organization_defenses[o][s.boxer.division] = 0

(* the move counted once and the target recorded once *)
MoveCounted(s, t, target) ==
    /\ t.pro_career.division_changes = s.pro_career.division_changes + 1
    /\ SeqContains(t.pro_career.divisions_fought, target)
    /\ NoDuplicates(t.pro_career.divisions_fought)

AllUnranked(t) == \A o \in OrgNames : t.pro_career.rankings[o] = NoRank

(* every rank of t within one place of one seed rank and within the slots *)
RankedNearOneSeed(t) ==
    \E seed \in 0..37 :
        \A o \in OrgNames :
            /\ t.pro_career.rankings[o] \in 1.._ranking_slots(o)
            /\ Abs(t.pro_career.rankings[o] - seed) <= 1

(* every rank of t a rank within one place of one seed rank of the         *)
(* brackets, brought into the slots of its organization                    *)
RankedFromOneSeed(t) ==
    \E seed \in 4..36 :
        \A o \in OrgNames :
            \E jitter \in -1..1 :
                t.pro_career.rankings[o] =
                    Max(1, Min(_ranking_slots(o), seed + jitter))

DivisionChanged == last'.op = "change_division" /\ ~last'.raised

PlayerLinealDivisions(s) ==
    {d \in DivisionNames : s.pro_career.lineal_champions[d] = BoxerName}

PlayerTitleDivisions(s) ==
    {d \in DivisionNames :
        \E o \in OrgNames : s.pro_career.organization_champions[o][d] = BoxerName}

RecordTotal(record) == record.wins + record.losses + record.draws

StageEntries(s, stage) ==
    Len(SelectSeq(s.history, LAMBDA entry : entry.stage = stage))

(* the history of s is the start of the history of t *)
HistoryKept(s, t) ==
    /\ Len(t.history) >= Len(s.history)
    /\ SubSeq(t.history, 1, Len(s.history)) = s.history

(* record after is record before with one more win, loss or draw, and one  *)
(* more knockout only with the win                                         *)
OneMoreFight(before, after) ==
    \/ /\ after.wins = before.wins + 1
       /\ after.losses = before.losses /\ after.draws = before.draws
       /\ after.kos \in {before.kos, before.kos + 1}
    \/ /\ after.losses = before.losses + 1
       /\ after.wins = before.wins /\ after.draws = before.draws
       /\ after.kos = before.kos
    \/ /\ after.draws = before.draws + 1
       /\ after.wins = before.wins /\ after.losses = before.losses
       /\ after.kos = before.kos

(* the records of s agree with its history and its count of amateur fights *)
RecordsMatchHistory(s) ==
    /\ s.boxer.record.kos <= s.boxer.record.wins
    /\ s.pro_career.record.kos <= s.pro_career.record.wins
    /\ RecordTotal(s.boxer.record) = s.amateur_progress.fights_taken
    /\ RecordTotal(s.boxer.record) = StageEntries(s, "amateur")
    /\ RecordTotal(s.pro_career.record) = StageEntries(s, "pro")

(* a fight applied to s with t left: one more fight in the record of the   *)
(* stage and one more entry of the stage at the end of the history         *)
FightRecorded(s, t, op) ==
    /\ Len(t.history) = Len(s.history) + 1
    /\ IF op = "apply_fight_result"
       THEN /\ OneMoreFight(s.boxer.record, t.boxer.record)
            /\ t.pro_career.record = s.pro_career.record
            /\ t.history[Len(t.history)].stage = "amateur"
       ELSE /\ OneMoreFight(s.pro_career.record, t.pro_career.record)
            /\ t.boxer.record = s.boxer.record
            /\ t.history[Len(t.history)].stage = "pro"

(* C35: the fight history is append-only and agrees with the records: a    *)
(* fight application that returns adds one win, loss or draw to the record *)
(* of the stage (a knockout only with a win) and one entry of the stage to *)
(* the history, no operation removes or alters an earlier entry, and at    *)
(* all times the amateur record total is fights_taken and the number of    *)
(* amateur entries and the pro record total the number of pro entries      *)
C35_HistoryMatchesRecords ==
    [][/\ HistoryKept(state, state')
       /\ (last'.op \in FightOps /\ ~last'.raised)
            => FightRecorded(state, state', last'.op)
       /\ RecordsMatchHistory(state')]_vars

(* C36: for a boxer who is not retired, below the hard age cap and with a  *)
(* positive retirement chance, evaluate_retirement draws one roll and      *)
(* reports it with the chance; the boxer retires, not forced, at the       *)
(* current age and with a reason stored, exactly when the roll is below    *)
(* the chance, and otherwise the state is as it was and the evaluation     *)
(* reports is_retired false                                                *)
C36_RetiresIffRollBelowChance ==
    [][(/\ last'.op = "evaluate_retirement"
        /\ ~state.is_retired
        /\ state.boxer.age < RulesRetirementModel.hard_age_cap
        /\ retirement_chance(state) > 0)
       => /\ last'.eval.roll \in Rolls
          /\ last'.eval.chance = retirement_chance(state)
          /\ IF last'.eval.roll < last'.eval.chance
             THEN /\ last'.eval.is_retired /\ last'.eval.newly_retired
                  /\ ~last'.eval.forced
                  /\ last'.eval.reason # NoReason
                  /\ state' = [state EXCEPT !.is_retired = TRUE,
                                            !.retirement_age = state.boxer.age,
                                            !.retirement_reason = last'.eval.reason]
             ELSE /\ ~last'.eval.is_retired /\ ~last'.eval.newly_retired
                  /\ state' = state]_vars

(* a boxer of an age with a positive chance has rolled above it and boxes  *)
(* on                                                                      *)
C36_Witness ==
    /\ last.op = "evaluate_retirement"
    /\ ~state.is_retired
    /\ last.eval.chance > 0
    /\ last.eval.roll >= last.eval.chance

(* a boxer of an age with a positive chance has rolled below it and has    *)
(* retired                                                                 *)
C36_RetiredWitness ==
    /\ last.op = "evaluate_retirement"
    /\ state.is_retired
    /\ last.eval.newly_retired /\ ~last.eval.forced
    /\ last.eval.roll # NoRoll /\ last.eval.roll < last.eval.chance

(***************************************************************************)
(* The month-advance routine of the game                                   *)
(***************************************************************************)
(* the call of the step belongs to the month of the loop the call before   *)
(* it belongs to, and the clock has not moved                              *)
SameLoopMonth ==
    /\ last'.call.months = last.call.months
    /\ last'.call.month = last.call.month
    /\ state'.career_months = state.career_months

(* C37: in the month-advance routine every elapsed month performs the      *)
(* clock advance, the world simulation and the retirement evaluation, in   *)
(* this order and once each, and a newly triggered retirement stops the    *)
(* routine: the clock advances by one month, either as the first month of  *)
(* a request or after an evaluation that did not retire the boxer, as the  *)
(* next month of the request while months are left; the world simulation   *)
(* follows the clock advance and the evaluation the world simulation       *)
C37_MonthRoutineOrder ==
    [][/\ last'.op = "advance_month" =>
            /\ state'.career_months = state.career_months + 1
            /\ ~state.is_retired
            /\ IF last.op = "init" THEN last'.call.month = 1
               ELSE /\ last.op = "evaluate_retirement"
                    /\ ~last.eval.newly_retired
                    /\ IF last.call.month < last.call.months
                       THEN /\ last'.call.months = last.call.months
                            /\ last'.call.month = last.call.month + 1
                       ELSE last'.call.month = 1
       /\ last'.op = "simulate_world_month" =>
            (last.op = "advance_month" /\ SameLoopMonth)
       /\ last'.op = "evaluate_retirement" =>
            /\ last.op = "simulate_world_month" /\ SameLoopMonth
            /\ last'.call.result = last'.eval.newly_retired
            /\ last'.call.result => last'.call.returned]_vars

(* a request of two months has returned in its first month with the boxer  *)
(* newly retired                                                           *)
C37_Witness ==
    /\ last.op = "evaluate_retirement"
    /\ last.call.months = 2 /\ last.call.month = 1
    /\ last.call.returned /\ last.call.result
    /\ state.is_retired

(* C38: a career whose months are advanced through the routine is retired  *)
(* no later than the month in which the age reaches the hard age cap: the  *)
(* routine never returns with the boxer not retired at or above the cap,   *)
(* and a career that keeps advancing retires                               *)
C38_RetiredByAgeCap ==
    /\ []((last.op = "evaluate_retirement" /\ last.call.returned) =>
             ~(/\ ~state.is_retired
               /\ state.boxer.age >= RulesRetirementModel.hard_age_cap))
    /\ <>state.is_retired

(* the routine has returned in the month of the birthday that reaches the  *)
(* cap, with the retirement forced                                         *)
C38_Witness ==
    /\ last.op = "evaluate_retirement"
    /\ last.call.returned /\ last.call.result
    /\ last.eval.forced
    /\ state.is_retired
    /\ state.retirement_age = RulesRetirementModel.hard_age_cap
    /\ state.boxer.age = RulesRetirementModel.hard_age_cap
====
